---- MODULE Spec2Model ----
(***************************************************************************)
(* Verification model of the aggregation-pipeline stage reducer            *)
(* (compass-aggregations/src/modules/pipeline.js), its pipeline generator  *)
(* and the saved-items aggregator                                          *)
(* (compass-saved-aggregations-queries/src/stores/                         *)
(* aggregations-queries-items.ts).                                         *)
(*                                                                         *)
(* JavaScript objects live on a heap: `objs` holds the stage objects,      *)
(* `arrs` the pipeline arrays (sequences of references into objs).  A      *)
(* reference is the position of the object in the heap, so that reference  *)
(* equality (===) and in-place writes are distinguishable from value       *)
(* equality and copies.  A property that is undefined in JavaScript is an  *)
(* absent field of the record; null is the string NULL.  Array indices in  *)
(* actions are 0-based as in the source.                                   *)
(***************************************************************************)
EXTENDS Integers, Sequences, FiniteSets, TLC

\* ------------------------------------------------------------------ bounds
\* Longest pipeline the add actions build.
MaxLen == 3
\* Number of actions dispatched to the pipeline store in one behaviour.
MaxSteps == 4
\* Last millisecond the clock read by Date.getTime() reaches.
MaxClock == 1
\* Number of calls of fetchItems in one behaviour.
MaxFetches == 2
\* Number of calls of runStage and runOutStage in one behaviour.
MaxRuns == 1
\* Number of changes of the read state in one behaviour.
MaxChanges == 3
\* Number of hover events in one drag.
MaxHovers == 3
\* Number of edits between the runs in one behaviour.
MaxEdits == 1
\* Number of connects to the favorite and of restarts of the application in
\* one test.
MaxConnects == 3
MaxRestarts == 2

VARIABLES
  objs,      \* heap of stage objects: Seq(stage record)
  arrs,      \* heap of pipeline arrays: Seq(Seq(reference into objs))
  store,     \* the pipeline array the store holds (Undefined before the first dispatch)
  act,       \* the action of the last reducer call
  input,     \* the state reference that call was given
  prevObjs,  \* objs as it was when that call started
  prevArrs,  \* arrs as it was when that call started
  steps,     \* reducer calls so far
  now,       \* the millisecond clock
  nextOid,   \* the ObjectId generator's counter
  inputDocuments, \* state.inputDocuments of the application state
  sample,    \* state.sample of the application state
  generated, \* the last call of generatePipeline: its index and its result
  itemsState, \* the state of the saved-items store: [loading, items]
  calls,     \* the calls of fetchItems: their two loads, what these read, their position,
             \* the number of their dispatches and the payload dispatched
  published, \* the payload of the last ITEMS_FETCHED action dispatched
  collation, \* state.collation of the application state
  aggregates, \* the calls of dataService.aggregate: what they were given and how far
             \* their callbacks have come
  events,    \* what the last thunk or callback did, in order
  thunk,     \* the last thunk or callback: its arguments, and the heap, the store
             \* and the calls as they were when it started
  runs,      \* the calls of runStage and runOutStage so far: thunk, index and state
  readState, \* ReadStateStore.state, with the number of times it has changed
  button,    \* a TextReadButton: how far its life has come, this.state, what it
             \* rendered last, whether it listens to the store
  notices,   \* the store's notifications the button has not been given yet
  drag,      \* the drag of a stage under way: monitor.getItem(), the dragged
             \* stage's id, and the last hover event
  oidc       \* the application and the identity provider of the OIDC tests

pipelineVars == <<objs, arrs, store, act, input, prevObjs, prevArrs, steps, now, nextOid>>
appVars == <<inputDocuments, sample, collation>>
runVars == <<aggregates, events, thunk, runs>>
itemVars == <<itemsState, calls, published>>
buttonVars == <<readState, button, notices>>
restVars == <<buttonVars, drag, oidc>>
nonButtonVars == <<pipelineVars, appVars, generated, itemVars, runVars, drag, oidc>>
nonOidcVars == <<pipelineVars, appVars, generated, itemVars, runVars, buttonVars, drag>>
vars == <<pipelineVars, appVars, generated, itemVars, runVars, restVars>>

\* ------------------------------------------------------------ action names
PREFIX == "aggregations/pipeline"
STAGE_ADDED == "aggregations/pipeline/STAGE_ADDED"
STAGE_ADDED_AFTER == "aggregations/pipeline/STAGE_ADDED_AFTER"
STAGE_CHANGED == "aggregations/pipeline/STAGE_CHANGED"
STAGE_COLLAPSE_TOGGLED == "aggregations/pipeline/STAGE_COLLAPSE_TOGGLED"
STAGE_DELETED == "aggregations/pipeline/STAGE_DELETED"
STAGE_MOVED == "aggregations/pipeline/STAGE_MOVED"
STAGE_OPERATOR_SELECTED == "aggregations/pipeline/STAGE_OPERATOR_SELECTED"
STAGE_TOGGLED == "aggregations/pipeline/STAGE_TOGGLED"
STAGE_PREVIEW_UPDATED == "aggregations/pipeline/STAGE_PREVIEW_UPDATED"
LOADING_STAGE_RESULTS == "aggregations/pipeline/LOADING_STAGE_RESULTS"

\* The ten action types the reducer maps to a handler.
PipelineActionTypes ==
  { STAGE_CHANGED, STAGE_ADDED, STAGE_ADDED_AFTER, STAGE_DELETED, STAGE_MOVED,
    STAGE_OPERATOR_SELECTED, STAGE_TOGGLED, STAGE_COLLAPSE_TOGGLED,
    STAGE_PREVIEW_UPDATED, LOADING_STAGE_RESULTS }

\* Action types of the surrounding application that reach this reducer too.
OtherActionTypes == { "@@redux/INIT", "aggregations/namespace/NAMESPACE_CHANGED" }

\* --------------------------------------------------------------- constants
NULL == "null"
Undefined == 0

\* A compiled stage { [op]: body } is the record of its operator and its
\* body text; a document count is [number |-> n] or the text NA.
LIMIT == [ op |-> "$limit", body |-> << "20" >> ]
LARGE_LIMIT == [ op |-> "$limit", body |-> << "100000" >> ]
NA == [ text |-> "N/A" ]
LargeCollection == 100000
REQUIRED_AS_FIRST_STAGE ==
  { "$collStats", "$currentOp", "$indexStats", "$listLocalSessions", "$listSessions" }
FULL_SCAN_OPS == { "$group", "$bucket", "$bucketAuto" }
OUT == "$out"

\* The operators the autocompleter package describes (name, snippet, comment).
KnownOperators == { "$match", "$group", "$collStats", "$out" }
STAGE_OPERATORS ==
  [ name \in KnownOperators |->
      [ name |-> name, snippet |-> <<"snippet", name>>, comment |-> <<"comment", name>> ] ]

\* Text is a sequence of tokens; '' is the empty sequence.
DEFAULT_SNIPPET == << "{\n  \n}" >>

\* The object EMPTY_STAGE and the array INITIAL_STATE are created once, when
\* the module is loaded: they are the first object and the first array.
EMPTY_STAGE == 1
INITIAL_STATE == 1
EMPTY_STAGE_VALUE ==
  [ id |-> <<"oid", 0>>,
    stageOperator |-> NULL,
    stage |-> << >>,
    isValid |-> TRUE,
    isEnabled |-> TRUE,
    isExpanded |-> TRUE,
    isLoading |-> FALSE,
    isComplete |-> FALSE,
    previewDocuments |-> << >>,
    syntaxError |-> NULL,
    error |-> NULL ]

\* ------------------------------------------------------------ heap helpers
\* obj[f] = v
SetField(o, f, v) == [ k \in (DOMAIN o) \cup {f} |-> IF k = f THEN v ELSE o[k] ]
\* obj[f] = undefined
ClearField(o, f) == [ k \in (DOMAIN o) \ {f} |-> o[k] ]
\* newState[index].f = v, as a write to the object the array slot refers to
Write(h, ref, f, v) == [ h EXCEPT !.objs[ref] = SetField(@, f, v) ]
\* array[index], index 0-based
At(h, arr, index) == h.arrs[arr][index + 1]

\* Array.prototype.splice(start, deleteCount, ...items): the array afterwards.
SpliceStart(seq, start) ==
  IF start < 0 THEN (IF Len(seq) + start < 0 THEN 0 ELSE Len(seq) + start)
  ELSE IF start > Len(seq) THEN Len(seq) ELSE start
SpliceCount(seq, start, deleteCount) ==
  LET s == SpliceStart(seq, start)
  IN IF deleteCount < 0 THEN 0
     ELSE IF deleteCount > Len(seq) - s THEN Len(seq) - s ELSE deleteCount
Splice(seq, start, deleteCount, items) ==
  LET s == SpliceStart(seq, start)
      d == SpliceCount(seq, start, deleteCount)
  IN SubSeq(seq, 1, s) \o items \o SubSeq(seq, s + d + 1, Len(seq))
\* Array.prototype.splice: the removed elements it returns.
Spliced(seq, start, deleteCount) ==
  LET s == SpliceStart(seq, start)
      d == SpliceCount(seq, start, deleteCount)
  IN SubSeq(seq, s + 1, s + d)

\* The value of a pipeline array: its stages, by value.
Pipeline(os, as, ref) == [ i \in 1..Len(as[ref]) |-> os[as[ref][i]] ]

\* ----------------------------------------------------------------- reducer
\* A heap h is [objs, arrs]; a handler returns the heap after the call and,
\* in ret, the reference it returns.

\* Mutant of copyState: state.slice(), a new array of the same objects.
copyStateShallow(h, state) ==
  [ objs |-> h.objs,
    arrs |-> Append(h.arrs, h.arrs[state]),
    ret |-> Len(h.arrs) + 1 ]

\* state.map(s => Object.assign({}, s)): a new array of new objects.
copyState(h, state) ==
  LET src == h.arrs[state]
      base == Len(h.objs)
  IN [ objs |-> h.objs \o [ i \in 1..Len(src) |-> h.objs[src[i]] ],
       arrs |-> Append(h.arrs, [ i \in 1..Len(src) |-> base + i ]),
       ret |-> Len(h.arrs) + 1 ]

getStageOperator(name) ==
  IF name \in DOMAIN STAGE_OPERATORS THEN STAGE_OPERATORS[name] ELSE << >>

\* Mutant of changeStage: isComplete is left as it was.
changeStageKeepsComplete(h, state, action) ==
  LET c == copyState(h, state)
      r == At(c, c.ret, action.index)
  IN Write(Write(c, r, "stage", action.stage),
           r, "fromStageOperators", FALSE)

changeStage(h, state, action) ==
  LET c == copyState(h, state)
      r == At(c, c.ret, action.index)
  IN Write(Write(Write(c, r, "stage", action.stage),
                 r, "isComplete", FALSE),
           r, "fromStageOperators", FALSE)

\* oid: the value of new ObjectId().toHexString()
addStage(h, state, oid) ==
  LET c == copyState(h, state)
      newStage == SetField(c.objs[EMPTY_STAGE], "id", <<"oid", oid>>)
      r == Len(c.objs) + 1
  IN [ c EXCEPT !.objs = Append(@, newStage),
                !.arrs[c.ret] = Append(@, r) ]

\* Mutant of AddAfterStage: splice(action.index, 0, newStage).
AddAfterStageAtIndex(h, state, action, time) ==
  LET c == copyState(h, state)
      newStage == SetField(c.objs[EMPTY_STAGE], "id", <<"ms", time>>)
      r == Len(c.objs) + 1
  IN [ c EXCEPT !.objs = Append(@, newStage),
                !.arrs[c.ret] = Splice(@, action.index, 0, <<r>>) ]

\* time: the value of new Date().getTime()
AddAfterStage(h, state, action, time) ==
  LET c == copyState(h, state)
      newStage == SetField(c.objs[EMPTY_STAGE], "id", <<"ms", time>>)
      r == Len(c.objs) + 1
  IN [ c EXCEPT !.objs = Append(@, newStage),
                !.arrs[c.ret] = Splice(@, action.index + 1, 0, <<r>>) ]

\* Mutant of deleteStage: splice(action.index + 1, 1).
deleteStageOffByOne(h, state, action) ==
  LET c == copyState(h, state)
  IN [ c EXCEPT !.arrs[c.ret] = Splice(@, action.index + 1, 1, << >>) ]

deleteStage(h, state, action) ==
  LET c == copyState(h, state)
  IN [ c EXCEPT !.arrs[c.ret] = Splice(@, action.index, 1, << >>) ]

\* Mutant of moveStage: without the early return.
moveStageAlwaysCopies(h, state, action) ==
  LET c == copyState(h, state)
      taken == Spliced(c.arrs[c.ret], action.fromIndex, 1)
      rest == Splice(c.arrs[c.ret], action.fromIndex, 1, << >>)
  IN [ c EXCEPT !.arrs[c.ret] = Splice(rest, action.toIndex, 0, <<taken[1]>>) ]

\* Mutant of moveStage: the two stages change places.
moveStageSwaps(h, state, action) ==
  IF action.fromIndex = action.toIndex
  THEN [ objs |-> h.objs, arrs |-> h.arrs, ret |-> state ]
  ELSE LET c == copyState(h, state)
           a == c.arrs[c.ret]
       IN [ c EXCEPT !.arrs[c.ret] =
              [ k \in 1..Len(a) |->
                  CASE k = action.fromIndex + 1 -> a[action.toIndex + 1]
                    [] k = action.toIndex + 1 -> a[action.fromIndex + 1]
                    [] OTHER -> a[k] ] ]

moveStage(h, state, action) ==
  IF action.fromIndex = action.toIndex
  THEN [ objs |-> h.objs, arrs |-> h.arrs, ret |-> state ]
  ELSE LET c == copyState(h, state)
           taken == Spliced(c.arrs[c.ret], action.fromIndex, 1)
           rest == Splice(c.arrs[c.ret], action.fromIndex, 1, << >>)
       IN [ c EXCEPT !.arrs[c.ret] = Splice(rest, action.toIndex, 0, <<taken[1]>>) ]

\* Mutant of selectStageOperator: the same operator is a no-op only when the
\* comment is not asked for.
selectStageOperatorUnlessCommenting(h, state, action) ==
  LET operatorName == action.stageOperator
  IN IF operatorName # h.objs[At(h, state, action.index)].stageOperator
        \/ action.isCommenting
     THEN LET c == copyState(h, state)
              r == At(c, c.ret, action.index)
              operatorDetails == getStageOperator(operatorName)
              snippet == IF "snippet" \in DOMAIN operatorDetails
                         THEN operatorDetails.snippet ELSE DEFAULT_SNIPPET
              comment == IF "comment" \in DOMAIN operatorDetails
                         THEN operatorDetails.comment ELSE << >>
              value == IF action.isCommenting THEN comment \o snippet ELSE snippet
          IN Write(Write(Write(Write(Write(Write(c,
               r, "stageOperator", operatorName),
               r, "stage", value),
               r, "snippet", value),
               r, "isExpanded", TRUE),
               r, "isComplete", FALSE),
               r, "fromStageOperators", TRUE)
     ELSE [ objs |-> h.objs, arrs |-> h.arrs, ret |-> state ]

selectStageOperator(h, state, action) ==
  LET operatorName == action.stageOperator
  IN IF operatorName # h.objs[At(h, state, action.index)].stageOperator
     THEN LET c == copyState(h, state)
              r == At(c, c.ret, action.index)
              operatorDetails == getStageOperator(operatorName)
              snippet == IF "snippet" \in DOMAIN operatorDetails
                         THEN operatorDetails.snippet ELSE DEFAULT_SNIPPET
              comment == IF "comment" \in DOMAIN operatorDetails
                         THEN operatorDetails.comment ELSE << >>
              value == IF action.isCommenting THEN comment \o snippet ELSE snippet
          IN Write(Write(Write(Write(Write(Write(c,
               r, "stageOperator", operatorName),
               r, "stage", value),
               r, "snippet", value),
               r, "isExpanded", TRUE),
               r, "isComplete", FALSE),
               r, "fromStageOperators", TRUE)
     ELSE [ objs |-> h.objs, arrs |-> h.arrs, ret |-> state ]

\* Mutant of toggleStage: isEnabled = false.
toggleStageDisables(h, state, action) ==
  LET c == copyState(h, state)
      r == At(c, c.ret, action.index)
  IN Write(c, r, "isEnabled", FALSE)

toggleStage(h, state, action) ==
  LET c == copyState(h, state)
      r == At(c, c.ret, action.index)
  IN Write(c, r, "isEnabled", ~c.objs[r].isEnabled)

toggleStageCollapse(h, state, action) ==
  LET c == copyState(h, state)
      r == At(c, c.ret, action.index)
  IN Write(c, r, "isExpanded", ~c.objs[r].isExpanded)

\* Error objects are named by strings; this is their .message.
ErrorMessage(e) ==
  CASE e = "MongoError: operation exceeded time limit" -> "operation exceeded time limit"
    [] e = "MongoError: cursor killed" -> "cursor killed"
    [] OTHER -> e

\* Mutant of updateStagePreview: isLoading is left as it was.
updateStagePreviewStillLoading(h, state, action) ==
  LET c == copyState(h, state)
      r == At(c, c.ret, action.index)
      hasError == "error" \in DOMAIN action /\ action.error # NULL
      isNull == "error" \in DOMAIN action /\ action.error = NULL
      w1 == Write(c, r, "previewDocuments", IF isNull THEN action.documents ELSE << >>)
      w3 == Write(w1, r, "error", IF hasError THEN ErrorMessage(action.error) ELSE NULL)
  IN IF "isComplete" \in DOMAIN action
     THEN Write(w3, r, "isComplete", action.isComplete)
     ELSE [ w3 EXCEPT !.objs[r] = ClearField(@, "isComplete") ]

\* action.error is null, an Error, or undefined (absent).
updateStagePreview(h, state, action) ==
  LET c == copyState(h, state)
      r == At(c, c.ret, action.index)
      hasError == "error" \in DOMAIN action /\ action.error # NULL
      isNull == "error" \in DOMAIN action /\ action.error = NULL
      w1 == Write(c, r, "previewDocuments", IF isNull THEN action.documents ELSE << >>)
      w2 == Write(w1, r, "error", IF hasError THEN ErrorMessage(action.error) ELSE NULL)
      w3 == Write(w2, r, "isLoading", FALSE)
  IN IF "isComplete" \in DOMAIN action
     THEN Write(w3, r, "isComplete", action.isComplete)
     ELSE [ w3 EXCEPT !.objs[r] = ClearField(@, "isComplete") ]

stageResultsLoading(h, state, action) ==
  LET c == copyState(h, state)
      r == At(c, c.ret, action.index)
  IN Write(c, r, "isLoading", TRUE)

\* MAPPINGS[action.type], applied; env holds what the handlers read from the
\* environment (the next ObjectId, the clock).
MAPPINGS(h, state, action, env) ==
  CASE action.type = STAGE_CHANGED -> changeStage(h, state, action)
    [] action.type = STAGE_ADDED -> addStage(h, state, env.oid)
    [] action.type = STAGE_ADDED_AFTER -> AddAfterStage(h, state, action, env.time)
    [] action.type = STAGE_DELETED -> deleteStage(h, state, action)
    [] action.type = STAGE_MOVED -> moveStage(h, state, action)
    [] action.type = STAGE_OPERATOR_SELECTED -> selectStageOperator(h, state, action)
    [] action.type = STAGE_TOGGLED -> toggleStage(h, state, action)
    [] action.type = STAGE_COLLAPSE_TOGGLED -> toggleStageCollapse(h, state, action)
    [] action.type = STAGE_PREVIEW_UPDATED -> updateStagePreview(h, state, action)
    [] action.type = LOADING_STAGE_RESULTS -> stageResultsLoading(h, state, action)

\* Mutant of reducer: an unrecognized action returns a copy of the state.
reducerCopiesOnUnknown(h, state, action, env) ==
  LET s == IF state = Undefined THEN INITIAL_STATE ELSE state
  IN IF action.type \in PipelineActionTypes
     THEN MAPPINGS(h, s, action, env)
     ELSE copyState(h, s)

\* reducer(state = INITIAL_STATE, action)
reducer(h, state, action, env) ==
  LET s == IF state = Undefined THEN INITIAL_STATE ELSE state
  IN IF action.type \in PipelineActionTypes
     THEN MAPPINGS(h, s, action, env)
     ELSE [ objs |-> h.objs, arrs |-> h.arrs, ret |-> s ]

\* ------------------------------------------------- the saved-items store
ITEMS_FETCHED == "compass-saved-aggregations-queries/itemsFetched"

ITEMS_INITIAL_STATE == [ loading |-> TRUE, items |-> << >> ]

\* Mutant of itemsReducer: the payload is added to the items already there.
itemsReducerAppends(state, action) ==
  IF action.type = ITEMS_FETCHED
  THEN [ state EXCEPT !.items = state.items \o action.payload, !.loading = FALSE ]
  ELSE state

\* The store's reducer.
itemsReducer(state, action) ==
  IF action.type = ITEMS_FETCHED
  THEN [ state EXCEPT !.items = action.payload, !.loading = FALSE ]
  ELSE state

\* toNS(ns) of mongodb-ns: a namespace is the text of its tokens; the
\* database is what stands before the first ".", the collection what follows.
FirstDot(ns) ==
  IF \E i \in 1..Len(ns) : ns[i] = "."
  THEN CHOOSE i \in 1..Len(ns) : ns[i] = "." /\ \A j \in 1..(i - 1) : ns[j] # "."
  ELSE Len(ns) + 1
toNS(ns) ==
  [ database |-> SubSeq(ns, 1, FirstDot(ns) - 1),
    collection |-> SubSeq(ns, FirstDot(ns) + 1, Len(ns)) ]

\* The map of getAggregationItems over what readPipelinesFromStorage gave.
getAggregationItems(aggregations) ==
  [ i \in 1..Len(aggregations) |->
      [ id |-> aggregations[i].id,
        lastModified |-> aggregations[i].lastModified,
        name |-> aggregations[i].name,
        database |-> toNS(aggregations[i].namespace).database,
        collection |-> toNS(aggregations[i].namespace).collection,
        type |-> "aggregation" ] ]

\* The map of getQueryItems over what favoriteQueryStorage.loadAll() gave.
getQueryItems(queries) ==
  [ i \in 1..Len(queries) |->
      [ id |-> queries[i]._id,
        name |-> queries[i]._name,
        lastModified |-> queries[i]._dateSaved,
        database |-> toNS(queries[i]._ns).database,
        collection |-> toNS(queries[i]._ns).collection,
        type |-> "query" ] ]

\* A promise is pending, fulfilled with a value or rejected with a reason.
Pending == [ status |-> "pending" ]
Fulfilled(value) == [ status |-> "fulfilled", value |-> value ]
Rejected(reason) == [ status |-> "rejected", reason |-> reason ]

\* Mutant of allSettled: Promise.all, which rejects with the first rejection.
PromiseAll(promises) ==
  IF \E i \in 1..Len(promises) : promises[i].status = "rejected"
  THEN Rejected((promises[CHOOSE i \in 1..Len(promises) :
                            promises[i].status = "rejected"]).reason)
  ELSE IF \A i \in 1..Len(promises) : promises[i].status = "fulfilled"
       THEN Fulfilled(promises)
       ELSE Pending

\* Promise.allSettled(promises): fulfilled with the results once none of the
\* promises is pending.
allSettled(promises) ==
  IF \A i \in 1..Len(promises) : promises[i].status # "pending"
  THEN Fulfilled(promises)
  ELSE Pending

\* payload.map(result => fulfilled ? result.value : []).flat()
RECURSIVE Flat(_)
Flat(lists) == IF lists = << >> THEN << >> ELSE Head(lists) \o Flat(Tail(lists))
PayloadOf(results) ==
  Flat([ i \in 1..Len(results) |->
           IF results[i].status = "fulfilled" THEN results[i].value ELSE << >> ])

\* What the two storages hold.
StoredAggregations ==
  LET a1 == [ id |-> "a1", name |-> "by year", lastModified |-> 10,
              namespace |-> << "db1", ".", "films" >> ]
      a2 == [ id |-> "a2", name |-> "totals", lastModified |-> 5,
              namespace |-> << "db2", ".", "system", ".", "views" >> ]
  IN { << >>, << a1 >>, << a2, a1 >> }
StoredQueries ==
  LET q1 == [ _id |-> "q1", _name |-> "recent", _dateSaved |-> 7,
              _ns |-> << "db1", ".", "films" >> ]
      q2 == [ _id |-> "q2", _name |-> "all", _dateSaved |-> 12,
              _ns |-> << "db3" >> ]
  IN { << >>, << q1 >>, << q1, q2 >> }
StorageErrors == { "EACCES" }

InitItemsStore ==
  /\ itemsState = ITEMS_INITIAL_STATE
  /\ calls = << >>
  /\ published = << >>

\* A component calls the thunk of fetchItems(): both loads start.
fetchItems ==
  /\ Len(calls) < MaxFetches
  /\ calls' = Append(calls, [ aggregations |-> Pending, queries |-> Pending,
                              read |-> [ aggregations |-> << >>, queries |-> << >> ],
                              pc |-> "await", dispatched |-> 0, payload |-> << >> ])
  /\ UNCHANGED <<itemsState, published, pipelineVars, appVars, generated, runVars, restVars>>

\* readPipelinesFromStorage() resolves and getAggregationItems returns.
AggregationsLoaded(c) ==
  \E stored \in StoredAggregations :
    /\ calls[c].aggregations = Pending
    /\ calls' = [ calls EXCEPT ![c].aggregations = Fulfilled(getAggregationItems(stored)),
                               ![c].read.aggregations = stored ]
    /\ UNCHANGED <<itemsState, published, pipelineVars, appVars, generated, runVars, restVars>>

\* readPipelinesFromStorage() rejects, and getAggregationItems with it.
AggregationsFailed(c) ==
  \E reason \in StorageErrors :
    /\ calls[c].aggregations = Pending
    /\ calls' = [ calls EXCEPT ![c].aggregations = Rejected(reason) ]
    /\ UNCHANGED <<itemsState, published, pipelineVars, appVars, generated, runVars, restVars>>

\* favoriteQueryStorage.loadAll() resolves and getQueryItems returns.
QueriesLoaded(c) ==
  \E stored \in StoredQueries :
    /\ calls[c].queries = Pending
    /\ calls' = [ calls EXCEPT ![c].queries = Fulfilled(getQueryItems(stored)),
                               ![c].read.queries = stored ]
    /\ UNCHANGED <<itemsState, published, pipelineVars, appVars, generated, runVars, restVars>>

\* favoriteQueryStorage.loadAll() rejects, and getQueryItems with it.
QueriesFailed(c) ==
  \E reason \in StorageErrors :
    /\ calls[c].queries = Pending
    /\ calls' = [ calls EXCEPT ![c].queries = Rejected(reason) ]
    /\ UNCHANGED <<itemsState, published, pipelineVars, appVars, generated, runVars, restVars>>

\* The await of the thunk ends: it dispatches ITEMS_FETCHED and returns, or
\* it throws what the awaited promise was rejected with.
ItemsFetched(c) ==
  LET awaited == allSettled(<< calls[c].aggregations, calls[c].queries >>)
  IN /\ calls[c].pc = "await"
     /\ awaited # Pending
     /\ IF awaited.status = "fulfilled"
        THEN LET action == [ type |-> ITEMS_FETCHED, payload |-> PayloadOf(awaited.value) ]
             IN /\ itemsState' = itemsReducer(itemsState, action)
                /\ published' = action.payload
                /\ calls' = [ calls EXCEPT ![c].pc = "returned",
                                           ![c].dispatched = @ + 1,
                                           ![c].payload = action.payload ]
        ELSE /\ calls' = [ calls EXCEPT ![c].pc = "thrown" ]
             /\ UNCHANGED <<itemsState, published>>
     /\ UNCHANGED <<pipelineVars, appVars, generated, runVars, restVars>>

\* ------------------------------------------------------ generatePipeline
\* generateStage(stage) of modules/stage: the stage in its executable form,
\* from its operator and its body.
generateStage(stage) == [ op |-> stage.stageOperator, body |-> stage.stage ]

\* generateStageAsString(stage) of modules/stage.
generateStageAsString(stage) == << "{", stage.stageOperator, ":" >> \o stage.stage \o << "}" >>

\* count === NA || (count > 100000 && FULL_SCAN_OPS.includes(op) && state.sample)
NeedsLargeLimit(state, stage) ==
  LET count == state.inputDocuments.count
  IN \/ count = NA
     \/ /\ "number" \in DOMAIN count
        /\ count.number > LargeCollection
        /\ stage.stageOperator \in FULL_SCAN_OPS
        /\ state.sample

\* Mutant of ReduceStages: i < index, the stage at index left out.
RECURSIVE ReduceStagesBeforeIndex(_, _, _)
ReduceStagesBeforeIndex(state, index, i) ==
  IF i >= Len(state.pipeline) THEN << >>
  ELSE LET stage == state.pipeline[i + 1]
           here == IF i < index /\ stage.isEnabled
                   THEN (IF NeedsLargeLimit(state, stage) THEN << LARGE_LIMIT >> ELSE << >>)
                        \o << IF "executor" \in DOMAIN stage
                              THEN stage.executor ELSE generateStage(stage) >>
                   ELSE << >>
       IN here \o ReduceStagesBeforeIndex(state, index, i + 1)

\* The reduce of generatePipeline over stages i, i+1, ... (i 0-based).
RECURSIVE ReduceStages(_, _, _)
ReduceStages(state, index, i) ==
  IF i >= Len(state.pipeline) THEN << >>
  ELSE LET stage == state.pipeline[i + 1]
           here == IF i <= index /\ stage.isEnabled
                   THEN (IF NeedsLargeLimit(state, stage) THEN << LARGE_LIMIT >> ELSE << >>)
                        \o << IF "executor" \in DOMAIN stage
                              THEN stage.executor ELSE generateStage(stage) >>
                   ELSE << >>
       IN here \o ReduceStages(state, index, i + 1)

generatePipeline(state, index) ==
  LET stages == ReduceStages(state, index, 0)
  IN IF /\ Len(stages) > 0
        /\ state.pipeline[Len(state.pipeline)].stageOperator \notin REQUIRED_AS_FIRST_STAGE
        /\ state.pipeline[Len(state.pipeline)].stageOperator # OUT
     THEN Append(stages, LIMIT)
     ELSE stages

\* The stages generatePipelineAsString joins: filter, then map.
RECURSIVE FilterStages(_, _, _)
FilterStages(pipeline, index, i) ==
  IF i >= Len(pipeline) THEN << >>
  ELSE (IF pipeline[i + 1].isEnabled /\ i <= index
        THEN << generateStageAsString(pipeline[i + 1]) >> ELSE << >>)
       \o FilterStages(pipeline, index, i + 1)

generatePipelineAsString(state, index) == FilterStages(state.pipeline, index, 0)

\* getState(), as far as generatePipeline reads it.
getState ==
  [ pipeline |-> Pipeline(objs, arrs, store),
    inputDocuments |-> inputDocuments,
    sample |-> sample ]

NoCall == [ index |-> -1 ]

\* ------------------------------------------------------------- the thunks
\* state.collation: an object; this one has no properties.
NoCollation == [ k \in {} |-> "" ]
\* isEmpty of lodash, on an object
isEmpty(value) == DOMAIN value = {}
\* state.namespace
Namespace == "db.coll"
MaxTimeMS == 5000

\* getState(): the state object a thunk holds on to. Its pipeline is the
\* array the store held at that moment, by reference.
StoreState ==
  [ pipeline |-> store,
    inputDocuments |-> inputDocuments,
    sample |-> sample,
    collation |-> collation,
    namespace |-> Namespace ]

\* The state a thunk holds, as generatePipeline reads it through heap w.
Snapshot(w, state) ==
  [ pipeline |-> Pipeline(w.objs, w.arrs, state.pipeline),
    inputDocuments |-> state.inputDocuments,
    sample |-> state.sample ]

\* What a thunk or a callback works on: the heap, the store with the record
\* of its last reducer call, the calls of dataService.aggregate, and the
\* events the thunk or callback has caused so far.
World ==
  [ objs |-> objs, arrs |-> arrs, store |-> store,
    act |-> act, input |-> input, prevObjs |-> prevObjs, prevArrs |-> prevArrs,
    steps |-> steps, aggregates |-> aggregates, events |-> << >> ]

\* The action creators.
loadingStageResults(index) == [ type |-> LOADING_STAGE_RESULTS, index |-> index ]
\* An argument that is undefined; the action then has no such property.
Absent == "undefined"
stagePreviewUpdated(docs, index, error, isComplete) ==
  IF error = Absent
  THEN [ type |-> STAGE_PREVIEW_UPDATED, documents |-> docs, index |-> index,
         isComplete |-> isComplete ]
  ELSE [ type |-> STAGE_PREVIEW_UPDATED, documents |-> docs, index |-> index,
         error |-> error, isComplete |-> isComplete ]
\* stagePreviewUpdated(docs, index, error): isComplete is undefined.
stagePreviewUpdated3(docs, index, error) ==
  [ type |-> STAGE_PREVIEW_UPDATED, documents |-> docs, index |-> index,
    error |-> error ]

\* dispatch(action) of the store, called by a thunk or a callback.
dispatch(w, action) ==
  LET res == reducer([ objs |-> w.objs, arrs |-> w.arrs ], w.store, action,
                     [ oid |-> nextOid, time |-> now ])
  IN [ w EXCEPT !.objs = res.objs, !.arrs = res.arrs, !.store = res.ret,
                !.act = action, !.input = w.store,
                !.prevObjs = w.objs, !.prevArrs = w.arrs,
                !.steps = @ + 1,
                !.events = Append(@, [ kind |-> "dispatch", action |-> action ]) ]

\* dispatch(appRegistryEmit(name, ...)): the event is published on the
\* application registry.
appRegistryEmit(w, name, data) ==
  [ w EXCEPT !.events = Append(@, [ kind |-> "emit", name |-> name, data |-> data ]) ]

\* dataService.aggregate(ns, pipeline, options, callback): the call is made
\* and its callback is pending.
aggregate(w, ns, pipeline, options, state, index) ==
  [ w EXCEPT !.events = Append(@, [ kind |-> "aggregate", ns |-> ns, index |-> index,
                                    pipeline |-> pipeline, options |-> options ]),
             !.aggregates = Append(@, [ run |-> Len(runs) + 1, index |-> index, state |-> state,
                                        ns |-> ns, pipeline |-> pipeline,
                                        options |-> options, phase |-> "aggregate",
                                        updates |-> 0 ]) ]

Options(state) ==
  IF isEmpty(state.collation) = FALSE
  THEN [ maxTimeMS |-> MaxTimeMS, allowDiskUse |-> TRUE, collation |-> state.collation ]
  ELSE [ maxTimeMS |-> MaxTimeMS, allowDiskUse |-> TRUE ]

\* Mutant of executeStage: the call is made before the loading action.
executeStageThenLoading(w, ns, state, index) ==
  LET pipeline == generatePipeline(Snapshot(w, state), index)
      w1 == aggregate(w, ns, pipeline, Options(state), state, index)
  IN dispatch(w1, loadingStageResults(index))

\* executeStage, up to the call of dataService.aggregate.
executeStage(w, ns, state, index) ==
  LET w1 == dispatch(w, loadingStageResults(index))
      pipeline == generatePipeline(Snapshot(w1, state), index)
  IN aggregate(w1, ns, pipeline, Options(state), state, index)

\* Mutant of executeAggregation: without the test for $out.
executeAggregationAlsoOut(w, ns, state, index) ==
  LET ref == w.arrs[state.pipeline][index + 1]
      w1 == [ w EXCEPT !.objs[ref] = SetField(@, "executor", generateStage(@)) ]
      stage == w1.objs[ref]
  IN IF stage.isValid /\ stage.isEnabled /\ stage.stageOperator # NULL
     THEN executeStage(w1, ns, state, index)
     ELSE dispatch(w1, stagePreviewUpdated(<< >>, index, NULL, FALSE))

executeAggregation(w, ns, state, index) ==
  LET ref == w.arrs[state.pipeline][index + 1]
      \* stage.executor = generateStage(stage), on the object state.pipeline refers to
      w1 == [ w EXCEPT !.objs[ref] = SetField(@, "executor", generateStage(@)) ]
      stage == w1.objs[ref]
  IN IF /\ stage.isValid /\ stage.isEnabled
        /\ stage.stageOperator # NULL /\ stage.stageOperator # OUT
     THEN executeStage(w1, ns, state, index)
     ELSE dispatch(w1, stagePreviewUpdated(<< >>, index, NULL, FALSE))

\* The loop of runStage: for (let i = index; i < state.pipeline.length; i++)
RECURSIVE RunLoop(_, _, _)
RunLoop(w, state, i) ==
  IF i < Len(w.arrs[state.pipeline])
  THEN RunLoop(executeAggregation(w, state.namespace, state, i), state, i + 1)
  ELSE w

\* The body of runOutStage.
OutLoop(w, state, index) ==
  appRegistryEmit(executeStage(w, state.namespace, state, index),
                  "agg-pipeline-out-executed", << >>)

\* dispatch(action) of an action for an index the store's pipeline does not
\* have: updateStagePreview assigns to a property of newState[action.index],
\* which is undefined, and the TypeError leaves dispatch and the callback;
\* the store keeps its state.
throws(w, action) ==
  [ w EXCEPT !.events = Append(@, [ kind |-> "throw", action |-> action ]) ]
InPipeline(w, index) == index < Len(w.arrs[w.store])

\* The callback of dataService.aggregate, called with an error.
onAggregateError(w, call, err) ==
  IF InPipeline(w, call.index)
  THEN dispatch(w, stagePreviewUpdated3(<< >>, call.index, err))
  ELSE throws(w, stagePreviewUpdated3(<< >>, call.index, err))

\* The callback of cursor.toArray, called with (e, docs); docs is << >> when
\* undefined, as docs || [] makes it.
onToArray(w, call, e, docs) ==
  LET w1 == dispatch(w, stagePreviewUpdated(docs, call.index, e, TRUE))
      w2 == [ w1 EXCEPT !.events = Append(@, [ kind |-> "close" ]) ]
      pipeline == Pipeline(w2.objs, w2.arrs, call.state.pipeline)
  IN IF InPipeline(w, call.index)
     THEN appRegistryEmit(w2, "agg-pipeline-executed",
            [ numStages |-> Len(pipeline),
              stageOperators |-> [ i \in 1..Len(pipeline) |-> pipeline[i].stageOperator ] ])
     ELSE throws(w, stagePreviewUpdated(docs, call.index, e, TRUE))

InitRuns ==
  /\ aggregates = << >>
  /\ events = << >>
  /\ thunk = [ kind |-> "none" ]
  /\ runs = << >>

\* ----------------------------------------------- the read-state-aware button
\* render() with tooltipText(): the button is disabled and has the Tooltip
\* element when this.state is not readable; the text is the description the
\* store has at that moment.
render(state, readStateStore) ==
  [ disabled |-> ~state.isReadable,
    tooltip |-> ~state.isReadable,
    tip |-> IF ~state.isReadable THEN readStateStore.description ELSE Absent ]

\* The states of ReadStateStore.
Descriptions == { "Topology type not readable", "Read preference not readable" }
ReadStates == [ isReadable : BOOLEAN, description : Descriptions ]

\* The store as it is created; it changes before the button is constructed
\* as well as after.
InitButton ==
  /\ readState = [ state |-> [ isReadable |-> FALSE,
                               description |-> "Topology type not readable" ],
                   changes |-> 0 ]
  /\ button = [ pc |-> "none" ]
  /\ notices = << >>

\* What the model holds besides the stores: the components.
InitRest ==
  /\ InitButton
  /\ drag = [ pc |-> "idle" ]
  /\ oidc = [ pc |-> "none" ]

\* constructor(props), and the first render() that follows it.
Construct ==
  /\ button.pc = "none"
  /\ button' = [ pc |-> "constructed", state |-> readState.state,
                 rendered |-> render(readState.state, readState.state),
                 listening |-> FALSE ]
  /\ UNCHANGED <<readState, notices>>
  /\ UNCHANGED nonButtonVars

\* componentDidMount(): ReadStateStore.listen(...)
ComponentDidMount ==
  /\ button.pc = "constructed"
  /\ button' = [ button EXCEPT !.pc = "mounted", !.listening = TRUE ]
  /\ UNCHANGED <<readState, notices>>
  /\ UNCHANGED nonButtonVars

\* The store's state changes and the store notifies its listeners.
ReadStateChanges ==
  \E state \in ReadStates :
    /\ readState.changes < MaxChanges
    /\ state # readState.state
    /\ readState' = [ state |-> state, changes |-> readState.changes + 1 ]
    /\ notices' = IF button.pc # "none" /\ button.listening
                  THEN Append(notices, state) ELSE notices
    /\ UNCHANGED button
    /\ UNCHANGED nonButtonVars

\* readStateChanged(state): this.setState(state), and the render() it causes.
ReadStateChanged ==
  /\ notices # << >>
  /\ button.pc = "mounted"
  /\ button' = [ button EXCEPT !.state = Head(notices),
                               !.rendered = render(Head(notices), readState.state) ]
  /\ notices' = Tail(notices)
  /\ UNCHANGED readState
  /\ UNCHANGED nonButtonVars

\* componentWillUnmount(): the listener is removed.
ComponentWillUnmount ==
  /\ button.pc = "mounted"
  /\ button' = [ button EXCEPT !.pc = "unmounted", !.listening = FALSE ]
  /\ notices' = << >>
  /\ UNCHANGED readState
  /\ UNCHANGED nonButtonVars

NextButton ==
  \/ Construct
  \/ ComponentDidMount
  \/ ReadStateChanges
  \/ ReadStateChanged
  \/ ComponentWillUnmount

\* ------------------------------------------------------- the pipeline store
Errors == { "MongoError: operation exceeded time limit" }
Documents == { << >>, << "doc1" >> }
\* Stage text typed by the user.
Texts == { << "{ x: 1 }" >> }
\* Operators offered by the stage operator select, and one it does not know.
SelectableOperators == KnownOperators \cup { "$unknown" }

\* Indices of the pipeline the store holds.
Indices == IF store = Undefined THEN {} ELSE 0..(Len(arrs[store]) - 1)

\* store.dispatch(action): the store's state becomes reducer(state, action).
Dispatch(action, env) ==
  /\ steps < MaxSteps
  /\ LET res == reducer([ objs |-> objs, arrs |-> arrs ], store, action, env)
     IN /\ objs' = res.objs
        /\ arrs' = res.arrs
        /\ store' = res.ret
  /\ act' = action
  /\ input' = store
  /\ prevObjs' = objs
  /\ prevArrs' = arrs
  /\ steps' = steps + 1
  /\ UNCHANGED <<appVars, generated, itemVars, runVars, restVars>>

Env == [ oid |-> nextOid, time |-> now ]

StageChanged ==
  \E index \in Indices, value \in Texts :
    /\ Dispatch([ type |-> STAGE_CHANGED, index |-> index, stage |-> value ], Env)
    /\ UNCHANGED <<now, nextOid>>

StageAdded ==
  /\ store # Undefined
  /\ Len(arrs[store]) < MaxLen
  /\ Dispatch([ type |-> STAGE_ADDED ], Env)
  /\ nextOid' = nextOid + 1
  /\ UNCHANGED now

\* The clock may have advanced since it was last read.
StageAddedAfter ==
  \E index \in Indices \cup { -1 }, time \in now..MaxClock :
    /\ store # Undefined
    /\ Len(arrs[store]) < MaxLen
    /\ Dispatch([ type |-> STAGE_ADDED_AFTER, index |-> index ],
                [ oid |-> nextOid, time |-> time ])
    /\ now' = time
    /\ UNCHANGED nextOid

StageDeleted ==
  \E index \in Indices :
    /\ Dispatch([ type |-> STAGE_DELETED, index |-> index ], Env)
    /\ UNCHANGED <<now, nextOid>>

StageMoved ==
  \E fromIndex \in Indices, toIndex \in Indices :
    /\ Dispatch([ type |-> STAGE_MOVED, fromIndex |-> fromIndex, toIndex |-> toIndex ], Env)
    /\ UNCHANGED <<now, nextOid>>

StageOperatorSelected ==
  \E index \in Indices, operator \in SelectableOperators, isCommenting \in BOOLEAN :
    /\ Dispatch([ type |-> STAGE_OPERATOR_SELECTED, index |-> index,
                  stageOperator |-> operator, isCommenting |-> isCommenting ], Env)
    /\ UNCHANGED <<now, nextOid>>

StageToggled ==
  \E index \in Indices :
    /\ Dispatch([ type |-> STAGE_TOGGLED, index |-> index ], Env)
    /\ UNCHANGED <<now, nextOid>>

StageCollapseToggled ==
  \E index \in Indices :
    /\ Dispatch([ type |-> STAGE_COLLAPSE_TOGGLED, index |-> index ], Env)
    /\ UNCHANGED <<now, nextOid>>

\* stagePreviewUpdated(docs, index, error, isComplete), in the shapes its
\* callers build; the error a callback hands over when there is none is null
\* or undefined.
PreviewActions(index) ==
  { [ type |-> STAGE_PREVIEW_UPDATED, documents |-> << "doc1" >>, index |-> index,
      isComplete |-> TRUE ] }
  \cup
  { [ type |-> STAGE_PREVIEW_UPDATED, documents |-> << >>, index |-> index,
      error |-> NULL, isComplete |-> FALSE ] }
  \cup
  { [ type |-> STAGE_PREVIEW_UPDATED, documents |-> << >>, index |-> index,
      error |-> e ] : e \in Errors }
  \cup
  { [ type |-> STAGE_PREVIEW_UPDATED, documents |-> d, index |-> index,
      error |-> NULL, isComplete |-> TRUE ] : d \in Documents }
  \cup
  { [ type |-> STAGE_PREVIEW_UPDATED, documents |-> << >>, index |-> index,
      error |-> e, isComplete |-> TRUE ] : e \in Errors }

StagePreviewUpdated ==
  \E index \in Indices :
    \E action \in PreviewActions(index) :
      /\ Dispatch(action, Env)
      /\ UNCHANGED <<now, nextOid>>

LoadingStageResults ==
  \E index \in Indices :
    /\ Dispatch([ type |-> LOADING_STAGE_RESULTS, index |-> index ], Env)
    /\ UNCHANGED <<now, nextOid>>

\* An action of another module, or the store's own initial action, which is
\* the first the reducer sees (with an undefined state).
OtherAction ==
  \E type \in OtherActionTypes :
    /\ (store = Undefined) <=> (type = "@@redux/INIT")
    /\ Dispatch([ type |-> type ], Env)
    /\ UNCHANGED <<now, nextOid>>

\* The modules as loaded, before the stores are created.
InitPipeline ==
  /\ objs = << EMPTY_STAGE_VALUE >>
  /\ arrs = << << EMPTY_STAGE >> >>
  /\ store = Undefined
  /\ act = [ type |-> "none" ]
  /\ input = Undefined
  /\ prevObjs = << EMPTY_STAGE_VALUE >>
  /\ prevArrs = << << EMPTY_STAGE >> >>
  /\ steps = 0
  /\ now = 0
  /\ nextOid = 1
  /\ inputDocuments = [ count |-> NA ]
  /\ sample = TRUE
  /\ collation = NoCollation
  /\ generated = NoCall
  /\ InitRuns
  /\ InitRest

Init ==
  /\ InitPipeline
  /\ InitItemsStore

Next ==
  \/ StageChanged
  \/ StageAdded
  \/ StageAddedAfter
  \/ StageDeleted
  \/ StageMoved
  \/ StageOperatorSelected
  \/ StageToggled
  \/ StageCollapseToggled
  \/ StagePreviewUpdated
  \/ LoadingStageResults
  \/ OtherAction

Spec == Init /\ [][Next]_vars

\* The saved-items store alone.
InitItems ==
  /\ InitPipeline
  /\ InitItemsStore

NextItems ==
  \/ fetchItems
  \/ \E c \in 1..Len(calls) : AggregationsLoaded(c)
  \/ \E c \in 1..Len(calls) : AggregationsFailed(c)
  \/ \E c \in 1..Len(calls) : QueriesLoaded(c)
  \/ \E c \in 1..Len(calls) : QueriesFailed(c)
  \/ \E c \in 1..Len(calls) : ItemsFetched(c)

SpecItems == InitItems /\ [][NextItems]_vars

\* The button alone.
SpecButton == Init /\ [][NextButton]_vars

\* ------------------------------------------- generatePipeline on its inputs
\* Operators of the stages generatePipeline is applied to: none, an ordinary
\* one, a full-scan one, a first-stage-only one and $out.
GenOperators == { NULL, "$match", "$group", "$collStats", "$out" }
\* Document counts: unknown, at the threshold, above it.
Counts == { NA, [ number |-> LargeCollection ], [ number |-> LargeCollection + 1 ] }
\* Executors cached on the stages: none (never run), fresh (run since the
\* last edit) or stale (run while the stage was still empty).
Caches == { "none", "fresh", "stale" }

\* A stage as the reducer leaves it after STAGE_OPERATOR_SELECTED (without
\* comment) and STAGE_TOGGLED, with the executor executeAggregation cached.
StageAs(n, operator, enabled, cache) ==
  LET empty == SetField(EMPTY_STAGE_VALUE, "id", <<"oid", n>>)
      selected ==
        IF operator = NULL THEN empty
        ELSE [ k \in (DOMAIN empty) \cup { "snippet", "fromStageOperators" } |->
                 CASE k = "stageOperator" -> operator
                   [] k = "stage" -> STAGE_OPERATORS[operator].snippet
                   [] k = "snippet" -> STAGE_OPERATORS[operator].snippet
                   [] k = "fromStageOperators" -> TRUE
                   [] OTHER -> empty[k] ]
      toggled == SetField(selected, "isEnabled", enabled)
  IN CASE cache = "none" -> toggled
       [] cache = "fresh" -> SetField(toggled, "executor", generateStage(toggled))
       [] cache = "stale" -> SetField(toggled, "executor", generateStage(EMPTY_STAGE_VALUE))

InitGen ==
  \E n \in 1..MaxLen :
    \E operators \in [ 1..n -> GenOperators ], enabled \in [ 1..n -> BOOLEAN ],
       cache \in Caches :
      /\ objs = << EMPTY_STAGE_VALUE >>
                \o [ i \in 1..n |-> StageAs(i, operators[i], enabled[i], cache) ]
      /\ arrs = << << EMPTY_STAGE >>, [ i \in 1..n |-> i + 1 ] >>
      /\ store = 2
      /\ act = [ type |-> "none" ]
      /\ input = Undefined
      /\ prevObjs = objs
      /\ prevArrs = arrs
      /\ steps = 0
      /\ now = 0
      /\ nextOid = n + 1
      /\ inputDocuments \in [ count : Counts ]
      /\ sample \in BOOLEAN
      /\ collation = NoCollation
      /\ generated = NoCall
      /\ InitRuns
      /\ InitRest
      /\ InitItemsStore

\* generatePipeline(state, index) and generatePipelineAsString(state, index)
\* on the current state.
GeneratePipeline ==
  \E index \in Indices :
    /\ generated' = [ index |-> index,
                      stages |-> generatePipeline(getState, index),
                      strings |-> generatePipelineAsString(getState, index) ]
    /\ UNCHANGED <<pipelineVars, appVars, itemVars, runVars, restVars>>

NextGen == GeneratePipeline

SpecGen == InitGen /\ [][NextGen]_vars

\* ------------------------------------------------- dragging a stage (legacy)
\* Mutant of hover: monitor.getItem().index is left as it was.
hoverKeepsIndex(item, props, hoverBoundingRect, clientOffset) ==
  LET fromIndex == item.index
      toIndex == props.index
      height == hoverBoundingRect.bottom - hoverBoundingRect.top
      hoverClientY == clientOffset.y - hoverBoundingRect.top
  IN IF fromIndex # toIndex
     THEN IF fromIndex < toIndex /\ 2 * hoverClientY < height
          THEN [ item |-> item, onMove |-> << >> ]
          ELSE IF fromIndex > toIndex /\ 2 * hoverClientY > height
          THEN [ item |-> item, onMove |-> << >> ]
          ELSE [ item |-> item, onMove |-> << <<fromIndex, toIndex>> >> ]
     ELSE [ item |-> item, onMove |-> << >> ]

\* hover(props, monitor, hoverComponent) of the drop target: the item of the
\* monitor afterwards, and the calls of props.onMove. hoverMiddleY is half the
\* height, so hoverClientY < hoverMiddleY is 2 * hoverClientY < height.
hover(item, props, hoverBoundingRect, clientOffset) ==
  LET fromIndex == item.index
      toIndex == props.index
      height == hoverBoundingRect.bottom - hoverBoundingRect.top
      hoverClientY == clientOffset.y - hoverBoundingRect.top
  IN IF fromIndex # toIndex
     THEN IF fromIndex < toIndex /\ 2 * hoverClientY < height
          THEN [ item |-> item, onMove |-> << >> ]
          ELSE IF fromIndex > toIndex /\ 2 * hoverClientY > height
          THEN [ item |-> item, onMove |-> << >> ]
          ELSE [ item |-> [ item EXCEPT !.index = toIndex ],
                 onMove |-> << <<fromIndex, toIndex>> >> ]
     ELSE [ item |-> item, onMove |-> << >> ]

\* The rectangle of the hovered stage on screen; the pointer is above its
\* middle, at it or below it.
Rects == { [ top |-> 3, bottom |-> 5 ] }

\* beginDrag(props) of the drag source.
BeginDrag ==
  \E index \in Indices :
    /\ drag.pc = "idle"
    /\ drag' = [ pc |-> "dragging",
                 item |-> [ index |-> index,
                            stageOperator |-> Pipeline(objs, arrs, store)[index + 1].stageOperator ],
                 id |-> Pipeline(objs, arrs, store)[index + 1].id,
                 hovers |-> 0 ]
    /\ UNCHANGED <<pipelineVars, appVars, generated, itemVars, runVars, buttonVars, oidc>>

\* The pointer is over the stage at index, at height y: hover is called, and
\* its onMove dispatches stageMoved(fromIndex, toIndex).
Hover ==
  \E index \in Indices, rect \in Rects :
    \E y \in rect.top..rect.bottom :
      /\ drag.pc = "dragging"
      /\ drag.hovers < MaxHovers
      /\ steps < MaxSteps
      /\ LET h == hover(drag.item, [ index |-> index ], rect, [ y |-> y ])
             action == [ type |-> STAGE_MOVED, fromIndex |-> h.onMove[1][1],
                         toIndex |-> h.onMove[1][2] ]
             w == IF h.onMove = << >> THEN World ELSE dispatch(World, action)
         IN /\ drag' = [ pc |-> "dragging", item |-> h.item, id |-> drag.id,
                         hovers |-> drag.hovers + 1,
                         from |-> drag.item.index, to |-> index,
                         y |-> y - rect.top, height |-> rect.bottom - rect.top,
                         moved |-> h.onMove # << >> ]
            /\ objs' = w.objs
            /\ arrs' = w.arrs
            /\ store' = w.store
            /\ act' = w.act
            /\ input' = w.input
            /\ prevObjs' = w.prevObjs
            /\ prevArrs' = w.prevArrs
            /\ steps' = w.steps
      /\ UNCHANGED <<now, nextOid, appVars, generated, itemVars, runVars, buttonVars, oidc>>

\* The stage is dropped.
EndDrag ==
  /\ drag.pc = "dragging"
  /\ drag' = [ pc |-> "dropped" ]
  /\ UNCHANGED <<pipelineVars, appVars, generated, itemVars, runVars, buttonVars, oidc>>

\* A pipeline of stages with operators, as the workspace shows it.
DragOperators == { "$match", "$group" }
InitDrag ==
  \E n \in 1..MaxLen :
    \E operators \in [ 1..n -> DragOperators ] :
      /\ objs = << EMPTY_STAGE_VALUE >>
                \o [ i \in 1..n |-> StageAs(i, operators[i], TRUE, "none") ]
      /\ arrs = << << EMPTY_STAGE >>, [ i \in 1..n |-> i + 1 ] >>
      /\ store = 2
      /\ act = [ type |-> "none" ]
      /\ input = Undefined
      /\ prevObjs = objs
      /\ prevArrs = arrs
      /\ steps = 0
      /\ now = 0
      /\ nextOid = n + 1
      /\ inputDocuments = [ count |-> NA ]
      /\ sample = TRUE
      /\ collation = NoCollation
      /\ generated = NoCall
      /\ InitRuns
      /\ InitRest
      /\ InitItemsStore

NextDrag ==
  \/ BeginDrag
  \/ Hover
  \/ EndDrag

SpecDrag == InitDrag /\ [][NextDrag]_vars

\* ------------------------------------------ the OIDC tests on a favorite
\* overrideRequestHandler of the mock identity provider: the access to the
\* endpoint is counted.
overrideRequestHandler(accesses, pathname) ==
  [ accesses EXCEPT ![pathname] = @ + 1 ]

\* The serialized OIDC state in a favorite's connection options: a string.
SerializedState == "serializedState"

\* Mutant of doConnect: the application authorizes anew on every connect.
doConnectAlwaysAuthorizes(o) ==
  LET accesses == overrideRequestHandler(o.accesses, "/authorize")
  IN [ o EXCEPT !.connected = TRUE,
                !.connects = @ + 1,
                !.accesses = accesses,
                !.serializedState = IF o.persistOIDCTokens THEN SerializedState ELSE @ ]

\* The application connects to the favorite: with persistOIDCTokens and a
\* serialized state in the favorite it uses the tokens of that state;
\* otherwise it goes to the provider's /authorize endpoint, and with
\* persistOIDCTokens it stores the serialized state in the favorite.
doConnect(o) ==
  LET reuse == o.persistOIDCTokens /\ o.serializedState # Absent
      accesses == IF reuse THEN o.accesses
                  ELSE overrideRequestHandler(o.accesses, "/authorize")
  IN [ o EXCEPT !.connected = TRUE,
                !.connects = @ + 1,
                !.accesses = accesses,
                !.serializedState = IF o.persistOIDCTokens THEN SerializedState ELSE @ ]

\* beforeEach: the accesses are reset and the application is started.
BeforeEach ==
  /\ oidc.pc = "none"
  /\ oidc' = [ pc |-> "started" ]
  /\ UNCHANGED nonOidcVars

\* browser.setFeature('persistOIDCTokens', value)
SetFeature ==
  \E value \in BOOLEAN :
    /\ oidc.pc = "started"
    /\ oidc' = [ pc |-> "configured", persistOIDCTokens |-> value ]
    /\ UNCHANGED nonOidcVars

\* browser.saveConnectionStringAsFavorite(connectionString)
SaveConnectionStringAsFavorite ==
  /\ oidc.pc = "configured"
  /\ oidc' = [ pc |-> "favorite", persistOIDCTokens |-> oidc.persistOIDCTokens,
               accesses |-> [ pathname \in { "/authorize" } |-> 0 ],
               serializedState |-> Absent, connected |-> FALSE,
               connects |-> 0, restarts |-> 0,
               exported |-> [ k \in {} |-> "" ] ]
  /\ UNCHANGED nonOidcVars

\* browser.selectFavorite(favoriteName); browser.doConnect()
DoConnect ==
  /\ oidc.pc = "favorite"
  /\ ~oidc.connected
  /\ oidc.connects < MaxConnects
  /\ oidc' = doConnect(oidc)
  /\ UNCHANGED nonOidcVars

\* browser.disconnect()
Disconnect ==
  /\ oidc.pc = "favorite"
  /\ oidc.connected
  /\ oidc' = [ oidc EXCEPT !.connected = FALSE ]
  /\ UNCHANGED nonOidcVars

\* getFavoriteConnectionInfo(favoriteName): the connections are exported and
\* the favorite's connectionOptions.oidc.serializedState is read.
GetFavoriteConnectionInfo ==
  /\ oidc.pc = "favorite"
  /\ ~oidc.connected
  /\ oidc' = [ oidc EXCEPT !.exported = [ serializedState |-> oidc.serializedState,
                                          connects |-> oidc.connects ] ]
  /\ UNCHANGED nonOidcVars

\* The application is restarted: the favorite and the preferences stay.
RestartCompass ==
  /\ oidc.pc = "favorite"
  /\ ~oidc.connected
  /\ oidc.restarts < MaxRestarts
  /\ oidc' = [ oidc EXCEPT !.restarts = @ + 1 ]
  /\ UNCHANGED nonOidcVars

NextOidc ==
  \/ BeforeEach
  \/ SetFeature
  \/ SaveConnectionStringAsFavorite
  \/ DoConnect
  \/ Disconnect
  \/ GetFavoriteConnectionInfo
  \/ RestartCompass

SpecOidc == Init /\ [][NextOidc]_vars

\* ------------------------------------------------ the thunks on a pipeline
\* The stages the thunks are applied to: one that can be run, a disabled
\* one, one whose text did not compile (isValid is written by the stage
\* compiler), one without operator, and $out.
RunKinds ==
  { [ operator |-> "$match", enabled |-> TRUE, valid |-> TRUE ],
    [ operator |-> "$match", enabled |-> FALSE, valid |-> TRUE ],
    [ operator |-> "$match", enabled |-> TRUE, valid |-> FALSE ],
    [ operator |-> NULL, enabled |-> TRUE, valid |-> TRUE ],
    [ operator |-> "$out", enabled |-> TRUE, valid |-> TRUE ] }
Collations == { NoCollation, [ locale |-> "simple" ] }

InitRun ==
  \E n \in 1..MaxLen :
    \E kinds \in [ 1..n -> RunKinds ] :
      /\ objs = << EMPTY_STAGE_VALUE >>
                \o [ i \in 1..n |->
                       SetField(StageAs(i, kinds[i].operator, kinds[i].enabled, "none"),
                                "isValid", kinds[i].valid) ]
      /\ arrs = << << EMPTY_STAGE >>, [ i \in 1..n |-> i + 1 ] >>
      /\ store = 2
      /\ act = [ type |-> "none" ]
      /\ input = Undefined
      /\ prevObjs = objs
      /\ prevArrs = arrs
      /\ steps = 0
      /\ now = 0
      /\ nextOid = n + 1
      /\ inputDocuments = [ count |-> [ number |-> LargeCollection ] ]
      /\ sample = TRUE
      /\ collation \in Collations
      /\ generated = NoCall
      /\ InitRuns
      /\ InitRest
      /\ InitItemsStore

\* The world a thunk or a callback leaves behind.
Commit(w) ==
  /\ objs' = w.objs
  /\ arrs' = w.arrs
  /\ store' = w.store
  /\ act' = w.act
  /\ input' = w.input
  /\ prevObjs' = w.prevObjs
  /\ prevArrs' = w.prevArrs
  /\ steps' = w.steps
  /\ aggregates' = w.aggregates
  /\ events' = w.events
  /\ UNCHANGED <<now, nextOid, appVars, generated, itemVars, restVars>>

\* The thunk or callback that is being run, with what it started from.
Started(kind, index, call, error) ==
  [ kind |-> kind, index |-> index, call |-> call, error |-> error,
    state |-> StoreState, objs |-> objs, arrs |-> arrs, store |-> store,
    aggregates |-> aggregates ]

\* Mutant of runStage: the loop starts at the first stage.
runStageFromStart(index) ==
  /\ Commit(RunLoop(World, StoreState, 0))
  /\ thunk' = Started("runStage", index, 0, NULL)
  /\ runs' = Append(runs, [ kind |-> "runStage", index |-> index, state |-> StoreState ])

\* store.dispatch(runStage(index))
runStage(index) ==
  /\ Commit(RunLoop(World, StoreState, index))
  /\ thunk' = Started("runStage", index, 0, NULL)
  /\ runs' = Append(runs, [ kind |-> "runStage", index |-> index, state |-> StoreState ])

\* store.dispatch(runOutStage(index))
runOutStage(index) ==
  /\ Commit(OutLoop(World, StoreState, index))
  /\ thunk' = Started("runOutStage", index, 0, NULL)
  /\ runs' = Append(runs, [ kind |-> "runOutStage", index |-> index, state |-> StoreState ])

\* The preview updates the callback of a call gets dispatched: one, or none
\* when the reducer throws.
Updated(call) == IF InPipeline(World, call.index) THEN 1 ELSE 0

\* The callback of call c of dataService.aggregate, called with an error.
aggregateCallbackError(c, err) ==
  /\ aggregates[c].phase = "aggregate"
  /\ \E w \in { onAggregateError(World, aggregates[c], err) } :
       Commit([ w EXCEPT !.aggregates[c].phase = "done",
                         !.aggregates[c].updates = @ + Updated(aggregates[c]) ])
  /\ thunk' = Started("aggregate", aggregates[c].index, c, err)
  /\ UNCHANGED runs

\* The callback of call c, called with a cursor: cursor.toArray is called.
aggregateCallbackCursor(c) ==
  /\ aggregates[c].phase = "aggregate"
  /\ Commit([ World EXCEPT !.aggregates[c].phase = "toArray",
                           !.events = << [ kind |-> "toArray" ] >> ])
  /\ thunk' = Started("aggregate", aggregates[c].index, c, NULL)
  /\ UNCHANGED runs

\* The callback of cursor.toArray of call c, called with (e, docs).
toArrayCallback(c, e, docs) ==
  /\ aggregates[c].phase = "toArray"
  /\ \E w \in { onToArray(World, aggregates[c], e, docs) } :
       Commit([ w EXCEPT !.aggregates[c].phase = "done",
                         !.aggregates[c].updates = @ + Updated(aggregates[c]) ])
  /\ thunk' = Started("toArray", aggregates[c].index, c,
                      IF e = Absent THEN NULL ELSE e)
  /\ UNCHANGED runs

RunStage ==
  \E index \in Indices :
    /\ Len(runs) < MaxRuns
    /\ steps < MaxSteps
    /\ runStage(index)

\* runOutStage is for the $out stage.
RunOutStage ==
  \E index \in Indices :
    /\ objs[At([ arrs |-> arrs ], store, index)].stageOperator = OUT
    /\ Len(runs) < MaxRuns
    /\ steps < MaxSteps
    /\ runOutStage(index)

\* The database calls back with an error.
AggregateFailed ==
  \E c \in 1..Len(aggregates), err \in Errors :
    /\ steps < MaxSteps
    /\ aggregateCallbackError(c, err)

\* The database calls back with a cursor.
AggregateReturned ==
  \E c \in 1..Len(aggregates) :
    /\ steps < MaxSteps
    /\ aggregateCallbackCursor(c)

\* cursor.toArray calls back with the documents, and null or undefined for
\* the error.
ToArrayReturned ==
  \E c \in 1..Len(aggregates), docs \in Documents, e \in { NULL, Absent } :
    /\ steps < MaxSteps
    /\ toArrayCallback(c, e, docs)

\* cursor.toArray calls back with an error and no documents.
ToArrayFailed ==
  \E c \in 1..Len(aggregates), e \in Errors :
    /\ steps < MaxSteps
    /\ toArrayCallback(c, e, << >>)

NextRun ==
  \/ RunStage
  \/ RunOutStage
  \/ AggregateFailed
  \/ AggregateReturned
  \/ ToArrayReturned
  \/ ToArrayFailed

SpecRun == InitRun /\ [][NextRun]_vars

\* --------------------------------------- runs while the pipeline is edited
\* The pipelines that are run and edited, by the operators of their stages.
EditPipelines == { << "$match" >>, << "$match", "$match" >>, << "$match", "$out" >> }

InitEdit ==
  \E kinds \in EditPipelines :
    LET n == Len(kinds) IN
      /\ objs = << EMPTY_STAGE_VALUE >>
                \o [ i \in 1..n |-> StageAs(i, kinds[i], TRUE, "none") ]
      /\ arrs = << << EMPTY_STAGE >>, [ i \in 1..n |-> i + 1 ] >>
      /\ store = 2
      /\ act = [ type |-> "none" ]
      /\ input = Undefined
      /\ prevObjs = objs
      /\ prevArrs = arrs
      /\ steps = 0
      /\ now = 0
      /\ nextOid = n + 1
      /\ inputDocuments = [ count |-> [ number |-> LargeCollection ] ]
      /\ sample = TRUE
      /\ collation = NoCollation
      /\ generated = NoCall
      /\ InitRuns
      /\ InitRest
      /\ InitItemsStore

\* A run is started, whatever calls of earlier runs are pending.
RunStageAgain ==
  \E index \in Indices :
    /\ Len(runs) < MaxRuns + 1
    /\ steps < MaxSteps
    /\ runStage(index)

RunOutStageAgain ==
  \E index \in Indices :
    /\ objs[At([ arrs |-> arrs ], store, index)].stageOperator = OUT
    /\ Len(runs) < MaxRuns + 1
    /\ steps < MaxSteps
    /\ runOutStage(index)

\* The actions the thunks and the callbacks have dispatched so far, and the
\* ones dispatched by the user interface: the edits.
RECURSIVE SumSeq(_)
SumSeq(seq) == IF seq = << >> THEN 0 ELSE Head(seq) + SumSeq(Tail(seq))
RunDispatches(run) ==
  IF run.kind = "runStage" THEN Len(arrs[run.state.pipeline]) - run.index ELSE 1
ThunkDispatches ==
  SumSeq([ r \in 1..Len(runs) |-> RunDispatches(runs[r]) ])
  + SumSeq([ c \in 1..Len(aggregates) |-> aggregates[c].updates ])
Edits == steps - ThunkDispatches

\* The user edits the pipeline between the runs and the callbacks.
EditStageChanged == Edits < MaxEdits /\ StageChanged
EditStageAddedAfter == Edits < MaxEdits /\ StageAddedAfter
EditStageDeleted == Edits < MaxEdits /\ StageDeleted
EditStageMoved == Edits < MaxEdits /\ StageMoved

NextEdit ==
  \/ RunStageAgain
  \/ RunOutStageAgain
  \/ AggregateFailed
  \/ AggregateReturned
  \/ ToArrayReturned
  \/ ToArrayFailed
  \/ EditStageChanged
  \/ EditStageAddedAfter
  \/ EditStageDeleted
  \/ EditStageMoved

SpecEdit == InitEdit /\ [][NextEdit]_vars

\* ------------------------------------------ a run, edits and the callbacks
\* The data service calls back, whenever that is.
AggregateFails == \E c \in 1..Len(aggregates), err \in Errors : aggregateCallbackError(c, err)
AggregateReturns == \E c \in 1..Len(aggregates) : aggregateCallbackCursor(c)
ToArrayReturns == \E c \in 1..Len(aggregates) : toArrayCallback(c, NULL, << "doc1" >>)
ToArrayFails == \E c \in 1..Len(aggregates), e \in Errors : toArrayCallback(c, e, << >>)

NextLoading ==
  \/ RunStage
  \/ RunOutStage
  \/ AggregateFails
  \/ AggregateReturns
  \/ ToArrayReturns
  \/ ToArrayFails
  \/ EditStageChanged
  \/ EditStageAddedAfter
  \/ EditStageDeleted
  \/ EditStageMoved

\* The data service calls every callback in the end.
FairSpecLoading ==
  /\ InitEdit
  /\ [][NextLoading]_vars
  /\ WF_vars(AggregateFails \/ AggregateReturns)
  /\ WF_vars(ToArrayReturns \/ ToArrayFails)

\* ------------------------------------------------- the reducer's contract
\* The state the last reducer call worked on (the default when undefined).
Given == IF input = Undefined THEN INITIAL_STATE ELSE input
Reduced == act.type # "none"
HeapUntouched == objs = prevObjs /\ arrs = prevArrs
\* seq without its i-th element (1-based)
RemoveAt(seq, i) ==
  [ k \in 1..(Len(seq) - 1) |-> IF k < i THEN seq[k] ELSE seq[k + 1] ]

\* C1: the reducer never mutates its input: after reducer(state, action)
\* returns, for every action type, the input array still refers to the same
\* stage objects and each of them has the fields it had before the call.
C1_InputNotMutated ==
  Reduced =>
    /\ arrs[Given] = prevArrs[Given]
    /\ \A i \in 1..Len(prevArrs[Given]) :
         objs[prevArrs[Given][i]] = prevObjs[prevArrs[Given][i]]

\* A handler that writes fields has run on a pipeline of several stages.
C1_Witness ==
  /\ act.type = STAGE_OPERATOR_SELECTED
  /\ store # input
  /\ Len(arrs[store]) >= 2
  /\ Pipeline(objs, arrs, store) # Pipeline(objs, arrs, input)

\* C2: STAGE_MOVED with fromIndex = toIndex returns the very state reference
\* it was given, without copying anything.
C2_MoveToSamePosition ==
  (act.type = STAGE_MOVED /\ act.fromIndex = act.toIndex) =>
    (store = input /\ HeapUntouched)

C2_Witness ==
  /\ act.type = STAGE_MOVED
  /\ act.fromIndex = act.toIndex
  /\ act.fromIndex = 1
  /\ Len(arrs[store]) >= 2

\* C3: STAGE_OPERATOR_SELECTED with the operator the indexed stage already
\* has returns the identical state reference, whatever isCommenting is, and
\* changes no field of any stage.
C3_SelectSameOperator ==
  (/\ act.type = STAGE_OPERATOR_SELECTED
   /\ act.stageOperator = prevObjs[prevArrs[Given][act.index + 1]].stageOperator) =>
    (store = input /\ HeapUntouched)

\* The same operator is selected again, with the comment asked for, on a
\* stage whose body is no longer the snippet.
C3_Witness ==
  /\ act.type = STAGE_OPERATOR_SELECTED
  /\ act.isCommenting
  /\ act.stageOperator = prevObjs[prevArrs[Given][act.index + 1]].stageOperator
  /\ objs[arrs[store][act.index + 1]].stage # objs[arrs[store][act.index + 1]].snippet

\* C4: an action of any other type returns the state reference it was given;
\* with an undefined state it returns the initial state, of exactly one
\* empty stage.
C4_UnknownAction ==
  (Reduced /\ act.type \notin PipelineActionTypes) =>
    /\ HeapUntouched
    /\ IF input = Undefined
       THEN /\ store = INITIAL_STATE
            /\ Pipeline(objs, arrs, store) = << EMPTY_STAGE_VALUE >>
       ELSE store = input

C4_Witness ==
  /\ Reduced
  /\ act.type \notin PipelineActionTypes
  /\ input # Undefined
  /\ Len(arrs[store]) >= 2

\* C5: STAGE_DELETED with index i returns the input sequence with the element
\* at position i removed: one stage fewer, the others with their values and
\* in their order.
C5_DeleteStage ==
  act.type = STAGE_DELETED =>
    /\ Len(arrs[store]) = Len(prevArrs[Given]) - 1
    /\ Pipeline(objs, arrs, store)
         = RemoveAt(Pipeline(prevObjs, prevArrs, Given), act.index + 1)

\* The middle stage of three is deleted.
C5_Witness ==
  /\ act.type = STAGE_DELETED
  /\ Len(prevArrs[Given]) = 3
  /\ act.index = 1
  /\ Len(arrs[store]) = 2

\* --------------------------------------------- generatePipeline's contract
Generated == generated.index >= 0
\* 1-based positions of the enabled stages at or before the index of the call.
Included ==
  { p \in 1..Len(arrs[store]) :
      p - 1 <= generated.index /\ objs[arrs[store][p]].isEnabled }
\* The place of position p among the included ones.
Rank(p) == Cardinality({ q \in Included : q <= p })
\* The pipeline being run: the included stages, in order.
Run == [ k \in 1..Cardinality(Included) |->
           objs[arrs[store][CHOOSE p \in Included : Rank(p) = k]] ]
NotALimit(e) == e \notin { LIMIT, LARGE_LIMIT }
HasTrailingLimit ==
  Len(generated.stages) > 0 /\ generated.stages[Len(generated.stages)] = LIMIT
\* The form of a stage that is sent: its cached executor, else its compilation.
Compiled(stage) ==
  IF "executor" \in DOMAIN stage THEN stage.executor ELSE generateStage(stage)

\* C6: the generated pipeline ends with LIMIT if and only if the pipeline
\* being run (the enabled stages up to index) does not end in a
\* first-stage-only operator or in $out.  Stated for the calls that run at
\* least one stage.
C6_TrailingLimit ==
  (Generated /\ Len(Run) > 0) =>
    (HasTrailingLimit <=>
       Run[Len(Run)].stageOperator \notin REQUIRED_AS_FIRST_STAGE \cup { OUT })

\* C9: apart from the injected limits, the generated pipeline holds one
\* element for each enabled stage at or before index, in pipeline order, and
\* nothing else; generatePipelineAsString selects the same stages.
C9_ExactlyEnabledUpToIndex ==
  Generated =>
    LET sent == SelectSeq(generated.stages, NotALimit)
    IN /\ Len(sent) = Cardinality(Included)
       /\ \A p \in Included : sent[Rank(p)] = Compiled(objs[arrs[store][p]])
       /\ Len(generated.strings) = Cardinality(Included)
       /\ \A p \in Included :
            generated.strings[Rank(p)] = generateStageAsString(objs[arrs[store][p]])

\* Of three stages the first and the last are enabled, the second is not,
\* and the pipeline is generated for the second; limits are injected.
C9_Witness ==
  /\ Generated
  /\ generated.index = 1
  /\ Len(arrs[store]) = 3
  /\ Included = { 1 }
  /\ objs[arrs[store][3]].isEnabled
  /\ inputDocuments.count = NA
  /\ Len(generated.stages) = 3

\* C10: LARGE_LIMIT stands only immediately ahead of a full-scan stage, and
\* it stands ahead of every full-scan stage when the document count is
\* unknown or above 100000.
C10_LargeLimitPlacement ==
  Generated =>
    LET out == generated.stages
        large == \/ inputDocuments.count = NA
                 \/ /\ "number" \in DOMAIN inputDocuments.count
                    /\ inputDocuments.count.number > LargeCollection
    IN /\ \A k \in 1..Len(out) :
            out[k] = LARGE_LIMIT =>
              (k < Len(out) /\ out[k + 1].op \in FULL_SCAN_OPS)
       /\ large =>
            \A k \in 1..Len(out) :
              out[k].op \in FULL_SCAN_OPS => (k > 1 /\ out[k - 1] = LARGE_LIMIT)

\* -------------------------------------------- the saved-items aggregator
\* The item the UI shows for each stored aggregation and query.
ExpectedItem(id) ==
  CASE id = "a1" -> [ id |-> "a1", name |-> "by year", lastModified |-> 10,
                      database |-> << "db1" >>, collection |-> << "films" >>,
                      type |-> "aggregation" ]
    [] id = "a2" -> [ id |-> "a2", name |-> "totals", lastModified |-> 5,
                      database |-> << "db2" >>,
                      collection |-> << "system", ".", "views" >>,
                      type |-> "aggregation" ]
    [] id = "q1" -> [ id |-> "q1", name |-> "recent", lastModified |-> 7,
                      database |-> << "db1" >>, collection |-> << "films" >>,
                      type |-> "query" ]
    [] id = "q2" -> [ id |-> "q2", name |-> "all", lastModified |-> 12,
                      database |-> << "db3" >>, collection |-> << >>,
                      type |-> "query" ]
ExpectedAggregations(c) ==
  [ i \in 1..Len(calls[c].read.aggregations) |->
      ExpectedItem(calls[c].read.aggregations[i].id) ]
ExpectedQueries(c) ==
  [ i \in 1..Len(calls[c].read.queries) |->
      ExpectedItem(calls[c].read.queries[i]._id) ]
Settled(c) ==
  calls[c].aggregations.status # "pending" /\ calls[c].queries.status # "pending"

\* C7: when exactly one of the two loads rejects and the other fulfils, the
\* call returns without throwing and what it dispatched is exactly the items
\* of the source that was read, in that source's order.
C7_PartialFailure ==
  \A c \in 1..Len(calls) :
    /\ (/\ calls[c].pc # "await"
        /\ calls[c].aggregations.status = "rejected"
        /\ calls[c].queries.status = "fulfilled") =>
         (/\ calls[c].pc = "returned"
          /\ calls[c].dispatched = 1
          /\ calls[c].payload = ExpectedQueries(c))
    /\ (/\ calls[c].pc # "await"
        /\ calls[c].aggregations.status = "fulfilled"
        /\ calls[c].queries.status = "rejected") =>
         (/\ calls[c].pc = "returned"
          /\ calls[c].dispatched = 1
          /\ calls[c].payload = ExpectedAggregations(c))

\* The aggregations could not be read, two queries were, and the call is over.
C7_Witness ==
  \E c \in 1..Len(calls) :
    /\ calls[c].pc # "await"
    /\ calls[c].aggregations.status = "rejected"
    /\ calls[c].queries.status = "fulfilled"
    /\ Len(calls[c].read.queries) = 2

\* C8: a call of fetchItems dispatches ITEMS_FETCHED at most once, not before
\* both loads have settled, and exactly once by the time it is over, whatever
\* the two loads did; after a dispatch the store has loading = false and its
\* items are the payload dispatched last (empty when both loads failed), not
\* that payload added to the items before.
C8_DispatchOnce ==
  /\ \A c \in 1..Len(calls) :
       /\ calls[c].dispatched <= 1
       /\ calls[c].dispatched = 1 => Settled(c)
       /\ calls[c].pc # "await" => (calls[c].pc = "returned" /\ calls[c].dispatched = 1)
       /\ calls[c].pc = "await" => calls[c].dispatched = 0
       /\ (/\ calls[c].dispatched = 1
           /\ calls[c].aggregations.status = "rejected"
           /\ calls[c].queries.status = "rejected") => calls[c].payload = << >>
       /\ (/\ calls[c].dispatched = 1
           /\ calls[c].aggregations.status = "fulfilled"
           /\ calls[c].queries.status = "fulfilled") =>
            calls[c].payload = ExpectedAggregations(c) \o ExpectedQueries(c)
  /\ (\E c \in 1..Len(calls) : calls[c].dispatched = 1) =>
       itemsState = [ loading |-> FALSE, items |-> published ]
  /\ (\A c \in 1..Len(calls) : calls[c].dispatched = 0) =>
       itemsState = ITEMS_INITIAL_STATE

\* Two calls are over: the first published items, the second, with both of
\* its loads failed, published none, and the store holds none.
C8_Witness ==
  /\ Len(calls) = 2
  /\ calls[1].pc = "returned" /\ calls[2].pc = "returned"
  /\ calls[1].payload # << >>
  /\ calls[2].aggregations.status = "rejected"
  /\ calls[2].queries.status = "rejected"
  /\ published = << >>
  /\ itemsState.items = << >>

\* ------------------------------------------------ the shape of the pipeline
\* The pipeline the store holds, and the one the last reducer call was given.
Stored == Pipeline(objs, arrs, store)
Before == Pipeline(prevObjs, prevArrs, Given)
\* seq with x put in front of its i-th element (1-based; at the end for Len + 1)
InsertAt(seq, i, x) ==
  [ k \in 1..(Len(seq) + 1) |->
      IF k < i THEN seq[k] ELSE IF k = i THEN x ELSE seq[k - 1] ]
FirstStageOnly ==
  { i \in 1..Len(Stored) : Stored[i].stageOperator \in REQUIRED_AS_FIRST_STAGE }

\* C15: in every pipeline state reachable from the initial state by reducer
\* actions, at most one stage uses an operator that must appear first.
C15_AtMostOneFirstStageOperator ==
  store # Undefined => Cardinality(FirstStageOnly) <= 1

\* C17: in every pipeline state reachable from the initial state by reducer
\* actions (several adds within one clock millisecond included), no two
\* stages of the pipeline have the same id.
C17_UniqueIds ==
  store # Undefined =>
    \A i, j \in 1..Len(Stored) : Stored[i].id = Stored[j].id => i = j

\* The fields the claim lists for a stage just added.
IsEmptyStage(stage) ==
  /\ stage.stageOperator = NULL
  /\ stage.stage = << >>
  /\ stage.isEnabled = TRUE
  /\ stage.isExpanded = TRUE
  /\ stage.isLoading = FALSE
  /\ stage.isComplete = FALSE
  /\ stage.previewDocuments = << >>
  /\ stage.error = NULL
  /\ stage.syntaxError = NULL

\* C19: STAGE_ADDED puts one new empty stage at the end, STAGE_ADDED_AFTER
\* with index i puts one at position i + 1 (position 0 for i = -1); the length
\* grows by one, the new stage has no operator, an empty body, isEnabled and
\* isExpanded true, isLoading and isComplete false, no preview documents and
\* no errors, and the stages there before keep their values and their order.
C19_AddInsertsOneEmptyStage ==
  /\ act.type = STAGE_ADDED =>
       /\ Len(Stored) = Len(Before) + 1
       /\ IsEmptyStage(Stored[Len(Stored)])
       /\ Stored = InsertAt(Before, Len(Before) + 1, Stored[Len(Stored)])
  /\ act.type = STAGE_ADDED_AFTER =>
       /\ Len(Stored) = Len(Before) + 1
       /\ IsEmptyStage(Stored[act.index + 2])
       /\ Stored = InsertAt(Before, act.index + 2, Stored[act.index + 2])

\* A stage was added between two stages that differ from an empty one.
C19_Witness ==
  /\ act.type = STAGE_ADDED_AFTER
  /\ act.index = 0
  /\ Len(Before) = 2
  /\ Before[1].stageOperator # NULL
  /\ Stored[3] = Before[2]

\* C20: for valid distinct indices, STAGE_MOVED(fromIndex, toIndex) gives a
\* pipeline of the same length that is a permutation of the input, with the
\* moved stage at toIndex and the other stages in their relative order.
C20_MoveReinserts ==
  (act.type = STAGE_MOVED /\ act.fromIndex # act.toIndex) =>
    /\ Len(Stored) = Len(Before)
    /\ Stored[act.toIndex + 1] = Before[act.fromIndex + 1]
    /\ RemoveAt(Stored, act.toIndex + 1) = RemoveAt(Before, act.fromIndex + 1)
    /\ \E perm \in [ 1..Len(Before) -> 1..Len(Before) ] :
         /\ \A i, j \in 1..Len(Before) : perm[i] = perm[j] => i = j
         /\ \A i \in 1..Len(Before) : Stored[i] = Before[perm[i]]

\* The first of three distinguishable stages was moved to the end.
C20_Witness ==
  /\ act.type = STAGE_MOVED
  /\ act.fromIndex = 0
  /\ act.toIndex = 2
  /\ Len(Before) = 3
  /\ \A i, j \in 1..3 : Before[i] = Before[j] => i = j

\* ------------------------------------------------- running the pipeline
\* A thunk or a callback has run; what follows is about the last one.
Ran == thunk.kind # "none"
\* state.pipeline of the state the thunk got from getState(), as it was
\* when the thunk started, and as it is now.
Snap == Pipeline(thunk.objs, thunk.arrs, thunk.state.pipeline)
SnapNow == Pipeline(objs, arrs, thunk.state.pipeline)
\* The pipeline the store held when the thunk or callback started.
StoredThen == Pipeline(thunk.objs, thunk.arrs, thunk.store)
Executable(stage) ==
  /\ stage.isValid
  /\ stage.isEnabled
  /\ stage.stageOperator # NULL
  /\ stage.stageOperator # OUT
\* Positions in events of the dispatches of an action type for an index, and
\* of the aggregate calls for an index.
Dispatched(type, index) ==
  { k \in 1..Len(events) :
      /\ events[k].kind = "dispatch"
      /\ events[k].action.type = type
      /\ events[k].action.index = index }
Aggregated(index) ==
  { k \in 1..Len(events) : events[k].kind = "aggregate" /\ events[k].index = index }
Emitted(name) ==
  { k \in 1..Len(events) : events[k].kind = "emit" /\ events[k].name = name }
\* The stages runStage went through.
Reached == IF thunk.kind = "runStage" THEN thunk.index..(Len(Snap) - 1) ELSE {}

\* C11: when runStage reaches a stage that is disabled, invalid, without an
\* operator, or $out, it makes no aggregate call and dispatches no loading
\* action for that stage, and dispatches exactly one preview update for it,
\* with empty documents, null error and isComplete false.
C11_SkippedStage ==
  \A i \in Reached :
    ~Executable(Snap[i + 1]) =>
      /\ Aggregated(i) = {}
      /\ Dispatched(LOADING_STAGE_RESULTS, i) = {}
      /\ Cardinality(Dispatched(STAGE_PREVIEW_UPDATED, i)) = 1
      /\ \A k \in Dispatched(STAGE_PREVIEW_UPDATED, i) :
           events[k].action =
             [ type |-> STAGE_PREVIEW_UPDATED, documents |-> << >>, index |-> i,
               error |-> NULL, isComplete |-> FALSE ]

\* runStage went from a stage it ran through $out to a disabled stage.
C11_Witness ==
  /\ thunk.kind = "runStage"
  /\ thunk.index = 0
  /\ Len(Snap) = 3
  /\ Executable(Snap[1])
  /\ Snap[2].stageOperator = OUT
  /\ ~Snap[3].isEnabled
  /\ Aggregated(0) # {}

\* The calls of the run the call of the last callback belongs to.
Failing == aggregates[thunk.call]
SameRun == { c \in 1..Len(aggregates) : aggregates[c].run = Failing.run }

C13_ErrorShortCircuits ==
  (thunk.kind \in { "aggregate", "toArray" } /\ thunk.error # NULL) =>
    /\ Emitted("agg-pipeline-executed") = {}
    /\ \/ "isComplete" \notin DOMAIN Stored[thunk.index + 1]
       \/ Stored[thunk.index + 1].isComplete = FALSE

\* C14: for every stage that is valid, enabled, has an operator and is not
\* $out, one execution makes exactly one aggregate call, with maxTimeMS 5000
\* and allowDiskUse true, and the collation only when the state's collation
\* is not empty, and the loading action for that index is dispatched before
\* the call is made. The same holds for the one execution of runOutStage.
C14_OneAggregateCall ==
  \A i \in { j \in Reached : Executable(Snap[j + 1]) }
           \cup (IF thunk.kind = "runOutStage" THEN { thunk.index } ELSE {}) :
      /\ Cardinality(Aggregated(i)) = 1
      /\ Cardinality({ c \in 1..Len(aggregates) :
                         aggregates[c].run = Len(runs) /\ aggregates[c].index = i }) = 1
      /\ \A k \in Aggregated(i) :
           /\ events[k].options.maxTimeMS = 5000
           /\ events[k].options.allowDiskUse = TRUE
           /\ IF DOMAIN thunk.state.collation = {}
              THEN DOMAIN events[k].options = { "maxTimeMS", "allowDiskUse" }
              ELSE /\ DOMAIN events[k].options = { "maxTimeMS", "allowDiskUse", "collation" }
                   /\ events[k].options.collation = thunk.state.collation
           /\ \E l \in Dispatched(LOADING_STAGE_RESULTS, i) : l < k

\* runStage ran two stages with a collation set.
C14_Witness ==
  /\ thunk.kind = "runStage"
  /\ thunk.index = 0
  /\ Len(Snap) >= 2
  /\ Executable(Snap[1]) /\ Executable(Snap[2])
  /\ DOMAIN thunk.state.collation # {}
  /\ Len(aggregates) = 2

\* C16: during runStage no aggregate call is made for a stage after an
\* enabled $out stage, and no pipeline sent to the database has a compiled
\* stage after a $out stage.
C16_OutEndsExecution ==
  thunk.kind = "runStage" =>
    \A k \in 1..Len(events) :
      events[k].kind = "aggregate" =>
        /\ \A j \in 1..events[k].index :
             ~(Snap[j].stageOperator = OUT /\ Snap[j].isEnabled)
        /\ \A m \in 1..(Len(events[k].pipeline) - 1) :
             events[k].pipeline[m].op # OUT

\* C18: runStage and runOutStage, and the callbacks of the calls they make,
\* never write to the pipeline array or to a stage object they got from
\* getState(): the array and every stage are, field for field, what they
\* were when the thunk or the callback started.
C18_SnapshotNotWritten ==
  Ran =>
    /\ arrs[thunk.state.pipeline] = thunk.arrs[thunk.state.pipeline]
    /\ \A i \in 1..Len(Snap) : SnapNow[i] = Snap[i]

\* ------------------------------------------------------ editing a stage
\* The stage the last action names, before and after.
Target == Stored[act.index + 1]
TargetBefore == Before[act.index + 1]
OthersKept ==
  /\ Len(Stored) = Len(Before)
  /\ \A j \in 1..Len(Stored) : j # act.index + 1 => Stored[j] = Before[j]
\* The text selectStageOperator is to give the stage.
ExpectedSnippet(operator, isCommenting) ==
  IF operator \in KnownOperators
  THEN (IF isCommenting THEN STAGE_OPERATORS[operator].comment ELSE << >>)
       \o STAGE_OPERATORS[operator].snippet
  ELSE DEFAULT_SNIPPET

\* C21: after STAGE_CHANGED at index i, or STAGE_OPERATOR_SELECTED at index i
\* with an operator other than the current one, stage i has isComplete false
\* and its body is the new text (the operator's snippet, after its comment
\* only when isCommenting, or the default snippet for an unknown operator,
\* with isExpanded true); the other stages are equal to what they were and
\* the length is unchanged.
C21_EditMarksIncomplete ==
  /\ act.type = STAGE_CHANGED =>
       /\ Target.isComplete = FALSE
       /\ Target.stage = act.stage
       /\ OthersKept
  /\ (act.type = STAGE_OPERATOR_SELECTED
       /\ act.stageOperator # TargetBefore.stageOperator) =>
       /\ Target.isComplete = FALSE
       /\ Target.stageOperator = act.stageOperator
       /\ Target.stage = ExpectedSnippet(act.stageOperator, act.isCommenting)
       /\ Target.isExpanded = TRUE
       /\ OthersKept

\* The text of a complete stage, the second of two, was changed.
C21_Witness ==
  /\ act.type = STAGE_CHANGED
  /\ act.index = 1
  /\ Len(Before) = 2
  /\ "isComplete" \in DOMAIN TargetBefore
  /\ TargetBefore.isComplete = TRUE
  /\ Target.stage # TargetBefore.stage

\* C22: after STAGE_PREVIEW_UPDATED at index i, stage i has isLoading false
\* and the action's isComplete, and either the action carried no error, the
\* stage's error is null and previewDocuments is the action's documents, or
\* the action carried an error, the stage's error is its message and
\* previewDocuments is empty.
C22_PreviewConsistent ==
  act.type = STAGE_PREVIEW_UPDATED =>
    /\ Target.isLoading = FALSE
    /\ IF "isComplete" \in DOMAIN act
       THEN "isComplete" \in DOMAIN Target /\ Target.isComplete = act.isComplete
       ELSE "isComplete" \notin DOMAIN Target
    /\ IF "error" \in DOMAIN act /\ act.error # NULL
       THEN Target.error = ErrorMessage(act.error) /\ Target.previewDocuments = << >>
       ELSE Target.error = NULL /\ Target.previewDocuments = act.documents

\* reducer(reducer(state, action), action), as a pipeline, for the state and
\* the action of the last reducer call: the reducer applied once more.
Twice(action) ==
  LET env == [ oid |-> nextOid, time |-> now ]
      twice == reducer([ objs |-> objs, arrs |-> arrs ], store, action, env)
  IN Pipeline(twice.objs, twice.arrs, twice.ret)

\* C23: STAGE_TOGGLED negates isEnabled, STAGE_COLLAPSE_TOGGLED negates
\* isExpanded and LOADING_STAGE_RESULTS sets isLoading, of the indexed stage
\* only; length, order and every other field of every stage are unchanged,
\* and the same toggle applied twice gives a pipeline equal to the original.
C23_FlagActions ==
  /\ act.type = STAGE_TOGGLED =>
       Stored = [ Before EXCEPT ![act.index + 1].isEnabled = ~@ ]
  /\ act.type = STAGE_COLLAPSE_TOGGLED =>
       Stored = [ Before EXCEPT ![act.index + 1].isExpanded = ~@ ]
  /\ act.type = LOADING_STAGE_RESULTS =>
       Stored = [ Before EXCEPT ![act.index + 1].isLoading = TRUE ]
  /\ act.type \in { STAGE_TOGGLED, STAGE_COLLAPSE_TOGGLED } => Twice(act) = Before

\* The second of two stages was enabled again.
C23_Witness ==
  /\ act.type = STAGE_TOGGLED
  /\ act.index = 1
  /\ Len(Before) = 2
  /\ TargetBefore.isEnabled = FALSE
  /\ Target.isEnabled = TRUE

\* ----------------------------------------------------- the button's look
\* C24: whenever a TextReadButton is mounted and no notification of the store
\* is undelivered, the button is disabled and has the tooltip exactly when the
\* store's current state is not readable, also when the store changed between
\* the component's construction and its subscription at mount.
C24_ButtonMirrorsStore ==
  (button.pc = "mounted" /\ notices = << >>) =>
    /\ button.rendered.disabled <=> ~readState.state.isReadable
    /\ button.rendered.tooltip <=> ~readState.state.isReadable

Fresh == act.type \in { LOADING_STAGE_RESULTS, STAGE_PREVIEW_UPDATED }
JustRan == thunk.kind = "runStage" /\ Fresh
\* The index an event of a run is about.
EventIndex(k) ==
  IF events[k].kind = "dispatch" THEN events[k].action.index ELSE events[k].index

\* C26: a run started by runStage(index) handles the stages index, ..., last
\* of the pipeline it got from getState() at its start, in ascending order
\* and none before index; it dispatches one loading action for every
\* executable stage and none for another; every call it makes holds that one
\* state; and the calls of earlier runs that are pending stay as they are,
\* neither waited for nor cancelled.
C26_RunInOrder ==
  JustRan =>
    /\ thunk.state.pipeline = thunk.store
    /\ thunk.state = runs[Len(runs)].state
    /\ \A k \in 1..Len(events) :
         /\ events[k].kind \in { "dispatch", "aggregate" }
         /\ EventIndex(k) \in Reached
         /\ \A l \in 1..Len(events) : k < l => EventIndex(k) <= EventIndex(l)
    /\ \A i \in Reached :
         /\ \E k \in 1..Len(events) : EventIndex(k) = i
         /\ Cardinality(Dispatched(LOADING_STAGE_RESULTS, i))
              = (IF Executable(Snap[i + 1]) THEN 1 ELSE 0)
    /\ Len(aggregates) >= Len(thunk.aggregates)
    /\ \A c \in 1..Len(aggregates) :
         IF c <= Len(thunk.aggregates)
         THEN aggregates[c] = thunk.aggregates[c]
         ELSE /\ aggregates[c].state = thunk.state
              /\ aggregates[c].run = Len(runs)
              /\ aggregates[c].phase = "aggregate"

\* A second run went through two executable stages while a call of the
\* first run was pending.
C26_Witness ==
  /\ JustRan
  /\ Len(runs) = 2
  /\ thunk.index = 0
  /\ Len(Snap) = 2
  /\ Executable(Snap[1]) /\ Executable(Snap[2])
  /\ \E c \in 1..Len(thunk.aggregates) : aggregates[c].phase = "aggregate"
  /\ Len(aggregates) = Len(thunk.aggregates) + 2

\* The last callback that had a preview update to dispatch, the call it
\* belongs to, and the stage that call was issued for.
CalledBack ==
  /\ thunk.kind \in { "aggregate", "toArray" }
  /\ events # << >>
  /\ events[1].kind \in { "dispatch", "throw" }
IssuedFor ==
  LET call == thunk.aggregates[thunk.call]
  IN Pipeline(thunk.objs, thunk.arrs, call.state.pipeline)[call.index + 1]

\* C28: the preview update a callback of an aggregate call produces names an
\* index inside the pipeline the store holds at that moment, and the stage at
\* that index is the stage the call was issued for (the one with its id),
\* whatever stages were added, deleted or moved since the call.
C28_UpdateReachesItsStage ==
  CalledBack =>
    /\ events[1].kind = "dispatch"
    /\ events[1].action.index + 1 \in 1..Len(StoredThen)
    /\ StoredThen[events[1].action.index + 1].id = IssuedFor.id

\* The ids stages can have: those of the stages at the start and those of
\* the stages added after another.
StageIds ==
  { <<"oid", n>> : n \in 1..MaxLen } \cup { <<"ms", time>> : time \in 0..MaxClock }
Loading(id) == \E i \in 1..Len(Stored) : Stored[i].id = id /\ Stored[i].isLoading

\* C29: when the data service calls every callback in the end, a stage of
\* the pipeline that is loading is not loading at some later moment,
\* whatever runs and edits are interleaved.
C29_LoadingEnds == \A id \in StageIds : []<>~Loading(id)

\* A stage without the executor cached on it, and the state a thunk got from
\* getState() with no executor cached on any stage: what generatePipeline
\* then returns has every stage compiled from its operator and body.
Without(stage, field) == [ k \in (DOMAIN stage) \ { field } |-> stage[k] ]
Uncached ==
  [ pipeline |-> [ i \in 1..Len(Snap) |-> Without(Snap[i], "executor") ],
    inputDocuments |-> thunk.state.inputDocuments,
    sample |-> thunk.state.sample ]

\* C30: every pipeline runStage(index) or runOutStage(index) sends to the
\* database has, for each stage in it, those before index too, the compiled
\* form of the operator and body the stage has at that moment, whatever body
\* changes and runs came before.
C30_NoStaleExecutor ==
  thunk.kind \in { "runStage", "runOutStage" } =>
    \A k \in 1..Len(events) :
      events[k].kind = "aggregate" =>
        events[k].pipeline = generatePipeline(Uncached, events[k].index)

\* ------------------------------------------------- OIDC token persistence
\* C27: for a favorite, with persistOIDCTokens enabled the connects to it,
\* also those after a restart of the application, access the provider's
\* /authorize endpoint once in all, and the favorite's exported connection
\* options hold a serialized state string once it was connected to; with
\* persistOIDCTokens disabled every connect accesses /authorize and the
\* exported options hold no serialized state.
C27_TokenPersistence ==
  oidc.pc = "favorite" =>
    /\ oidc.persistOIDCTokens =>
         /\ oidc.accesses["/authorize"] = (IF oidc.connects >= 1 THEN 1 ELSE 0)
         /\ (DOMAIN oidc.exported # {} /\ oidc.exported.connects >= 1) =>
              oidc.exported.serializedState = SerializedState
    /\ ~oidc.persistOIDCTokens =>
         /\ oidc.accesses["/authorize"] = oidc.connects
         /\ DOMAIN oidc.exported # {} => oidc.exported.serializedState = Absent

\* With persistOIDCTokens the favorite was connected to, the application was
\* restarted and the favorite connected to again; the export after that
\* shows the serialized state.
C27_Witness ==
  /\ oidc.pc = "favorite"
  /\ oidc.persistOIDCTokens
  /\ oidc.connects = 2
  /\ oidc.restarts = 1
  /\ ~oidc.connected
  /\ DOMAIN oidc.exported # {}
  /\ oidc.exported.connects = 2
  /\ oidc.accesses["/authorize"] = 1

\* --------------------------------------------- the cursor of a call's result
\* C31: when the results of the cursor of an aggregate call arrive, the
\* callback dispatches the preview update for the call's stage, then closes
\* the cursor, then emits 'agg-pipeline-executed', each once and nothing
\* else, so that a cursor that was delivered and read is closed.
C31_CursorClosedAfterUpdate ==
  thunk.kind = "toArray" =>
    /\ Len(events) = 3
    /\ events[1].kind = "dispatch"
    /\ events[1].action.type = STAGE_PREVIEW_UPDATED
    /\ events[1].action.index = thunk.aggregates[thunk.call].index
    /\ events[2].kind = "close"
    /\ events[3].kind = "emit"
    /\ events[3].name = "agg-pipeline-executed"
    /\ aggregates[thunk.call].phase = "done"

====
